---- MODULE Spec2Model ----
(***************************************************************************)
(* Afterpiece: the declaration resolver of the legacy metadata builder     *)
(* (v2/app/legacymeta/schema.go) and the type registry of the client       *)
(* generator (pkg/clientgen, typeRegistry).                                *)
(*                                                                         *)
(* Recursive Go functions are modelled as explicit call stacks: a frame    *)
(* holds the work the activation still has to do, in Go's evaluation       *)
(* order, and one action is one step of the function at the top.           *)
(***************************************************************************)
EXTENDS Integers, Sequences, FiniteSets, TLC

\* ------------------------------------------------------------------------
\* Bounds of the model
\* ------------------------------------------------------------------------
\* fields of one struct body
MaxFields == 2
\* fields of all the bodies of one application together
MaxRefs == 3
\* top-level calls into the builder during one build
MaxCalls == 2
\* cap of the declaration list (the code bounds it by the number of keys)
MaxEntries == 4
\* Named references of all the declarations of one metadata document together
MaxEdges == 4
\* the same, for a document that has a field of another shape
MaxShapeEdges == 2
\* root types getNamedTypes visits (schemas of the endpoints, auth parameters)
MaxVisits == 2
\* enums of one metadata document
MaxEnums == 1
\* specs of one const block
MaxSpecs == 2
\* bits of an integer constant (int64 in the code)
IntBits == 12

VARIABLES
    \* --- the parsed application (input of the builder) ---
    app,             \* type declaration -> its underlying type (schemav2)
    \* --- builder (legacymeta) ---
    decls,           \* b.decls: declKey -> id
    mdDecls,         \* b.md.Decls
    usedNamedTypes,  \* b.usedNamedTypes
    errs,            \* number of errors reported with b.errs.Addf
    aborted,         \* b.errs.Fatalf was called: the build is over
    bstack,          \* call stack of decl / schemaType
    calls,           \* top-level calls made so far
    rets,            \* history: key -> ids decl has returned for it
    lastCall,        \* history: the last top-level call that returned
    \* --- typeRegistry (clientgen) ---
    md,              \* v.md: the metadata document (Decls)
    namespaces,      \* v.namespaces: package name -> declarations (by id)
    seenDecls,       \* v.seenDecls
    declRefs,        \* v.declRefs: id -> ids it references
    currDecl,        \* v.currDecl (NoId: nil)
    enums,           \* v.enums: package name -> enums
    vstack,          \* call stack of Visit / visitNamed / visitDecl
    visits,          \* root types visited so far
    phase,           \* getNamedTypes: "visit", then "done"; "panic" after a panic
    nss,             \* what the last call of Namespaces returned
    \* --- constant parser ---
    evalExpr,        \* evaluateExprWithSpecIndex: expr
    evalIndex,       \* evaluateExprWithSpecIndex: specIndex
    evalValue,       \* what the call returned
    evalDone,        \* the call has been made
    mode,            \* "Parse" or "ParseWithoutDirective"
    tok,             \* d.Decl.Tok
    schemaSet,       \* d.Schema != nil
    specs,           \* d.Decl.Specs, those the loop has been through
    dErrs,           \* d.Errs
    constants,       \* Parse: constants
    lastType,        \* Parse: lastType
    lastTypeExpr,    \* Parse: lastTypeExpr
    results,         \* Parse: results
    pc,              \* Parse: "loop", then "done"
    \* --- builder (legacymeta): enums ---
    explicitEnums,   \* populateEnums: explicitEnums
    blocks,          \* what ParseWithoutDirective yields for each const block
    exportedEnums,   \* b.exportedEnums
    mdEnums,         \* b.md.Enums
    blk,             \* populateEnums: const blocks gone through in this pass
    epc,             \* populateEnums: "idle", "loop", then "done"
    passes,          \* calls of populateEnums so far
    \* --- LSP handler ---
    checker,         \* h.checker != nil
    cancelCheck,     \* h.cancelCheck: the run whose context it cancels (0: nil)
    lastDiagURIs,    \* h.lastDiagURIs
    cancelled,       \* runs whose checkCtx is cancelled
    started,         \* runs in the order they took h.mu for the first time
    rpc,             \* runCheck: position of each run
    rchecker,        \* runCheck: checker != nil
    currentURIs,     \* runCheck: currentURIs
    previousURIs,    \* runCheck: previousURIs
    published        \* editor: URIs shown with diagnostics

builderVars ==
    <<app, decls, mdDecls, usedNamedTypes, errs, aborted, bstack, calls,
      rets, lastCall>>

registryVars ==
    <<md, namespaces, seenDecls, declRefs, currDecl, enums, vstack, visits, phase, nss>>

parserVars ==
    <<evalExpr, evalIndex, evalValue, evalDone,
      mode, tok, schemaSet, specs, dErrs, constants, lastType, lastTypeExpr, results, pc>>

metaVars ==
    <<explicitEnums, blocks, exportedEnums, mdEnums, blk, epc, passes>>

lspVars ==
    <<checker, cancelCheck, lastDiagURIs, cancelled, started, rpc, rchecker,
      currentURIs, previousURIs, published>>

vars == <<builderVars, registryVars, parserVars, metaVars, lspVars>>

\* ------------------------------------------------------------------------
\* parser/apis/constant: constant values and the expression evaluator
\* ------------------------------------------------------------------------
\* ConstantValue; text is a sequence of characters, a float an expression in
\* postfix form over the literals it was computed from
ConstantValue(str, int, bool, float, kind) ==
    [StrValue |-> str, IntValue |-> int, BoolValue |-> bool, FloatValue |-> float, Kind |-> kind]
\* ConstantKind: ConstantString is the zero value of the type
ConstantString == "String"
ConstantInt == "Int"
ConstantBool == "Bool"
ConstantFloat == "Float"
ZeroFloat == <<"0">>
StringValue(s) == ConstantValue(s, 0, FALSE, ZeroFloat, ConstantString)
IntValue(n) == ConstantValue(<<>>, n, FALSE, ZeroFloat, ConstantInt)
BoolValue(b) == ConstantValue(<<>>, 0, b, ZeroFloat, ConstantBool)
FloatValue(f) == ConstantValue(<<>>, 0, FALSE, f, ConstantFloat)
\* "return ConstantValue{}"
EmptyValue == ConstantValue(<<>>, 0, FALSE, ZeroFloat, ConstantString)
\* the evaluator did not return: a run-time panic
Panicked == ConstantValue(<<>>, 0, FALSE, ZeroFloat, "panic")

\* int64 arithmetic, at the width IntBits
RECURSIVE Pow2(_)
Pow2(n) == IF n = 0 THEN 1 ELSE 2 * Pow2(n - 1)
MinInt == 0 - Pow2(IntBits - 1)
MaxInt == Pow2(IntBits - 1) - 1
\* two's complement: the value of the low IntBits bits of x
Wrap(x) == ((x - MinInt) % Pow2(IntBits)) + MinInt
\* uint(x)
Unsigned(x) == x % Pow2(IntBits)
Abs(x) == IF x < 0 THEN 0 - x ELSE x
\* Go's / and %: truncated towards zero, the remainder has the dividend's sign
GoQuo(x, y) == Wrap((IF (x < 0) = (y < 0) THEN 1 ELSE 0 - 1) * (Abs(x) \div Abs(y)))
GoRem(x, y) == (IF x < 0 THEN 0 - 1 ELSE 1) * (Abs(x) % Abs(y))
\* &, | and ^ bit by bit on the unsigned operands
RECURSIVE BitOp(_, _, _, _)
BitOp(op, a, b, n) ==
    IF n = 0 THEN 0
    ELSE LET x == a % 2
             y == b % 2
             bit == CASE op = "&" -> IF x = 1 /\ y = 1 THEN 1 ELSE 0
                      [] op = "|" -> IF x = 1 \/ y = 1 THEN 1 ELSE 0
                      [] OTHER -> IF x # y THEN 1 ELSE 0
         IN bit + 2 * BitOp(op, a \div 2, b \div 2, n - 1)
Bitwise(op, x, y) == Wrap(BitOp(op, Unsigned(x), Unsigned(y), IntBits))
\* x << uint(y) and x >> uint(y): a count of IntBits or more shifts all bits out
Shl(x, y) == IF Unsigned(y) >= IntBits THEN 0 ELSE Wrap(x * Pow2(Unsigned(y)))
Shr(x, y) ==
    IF Unsigned(y) >= IntBits THEN (IF x < 0 THEN 0 - 1 ELSE 0)
    ELSE LET p == Pow2(Unsigned(y))
         IN IF x >= 0 THEN x \div p ELSE 0 - ((p - 1 - x) \div p)

\* ast.Expr: one record shape for every node
Expr(node, op, text, kids) == [node |-> node, op |-> op, text |-> text, kids |-> kids]
\* kind is the token.Token of the literal, text its source characters
BasicLit(kind, text) == Expr("BasicLit", kind, text, <<>>)
Ident(name) == Expr("Ident", "", <<name>>, <<>>)
UnaryExpr(op, x) == Expr("UnaryExpr", op, <<>>, <<x>>)
BinaryExpr(x, op, y) == Expr("BinaryExpr", op, <<>>, <<x, y>>)
CallExpr(fun, args) == Expr("CallExpr", "", <<>>, <<fun>> \o args)
\* any other node: ParenExpr, SelectorExpr, CompositeLit, ...
OtherExpr(node, kids) == Expr(node, "", <<>>, kids)

Quote == "\""
Digits == {"0", "1", "2", "3", "4", "5", "6", "7", "8", "9"}
DigitValue(c) ==
    CASE c = "0" -> 0 [] c = "1" -> 1 [] c = "2" -> 2 [] c = "3" -> 3 [] c = "4" -> 4
      [] c = "5" -> 5 [] c = "6" -> 6 [] c = "7" -> 7 [] c = "8" -> 8 [] OTHER -> 9

\* strconv.Unquote: ok for a literal in quotes whose characters need no
\* escape; "\\" stands for a backslash that begins no valid escape
UnquoteOk(text) ==
    /\ Len(text) >= 2
    /\ text[1] = Quote /\ text[Len(text)] = Quote
    /\ \A i \in 2..(Len(text) - 1) : text[i] \notin {Quote, "\\"}

\* strconv.ParseInt(text, 10, 64): the digits' value, or an error (NoInt) for
\* an empty text, a character that is no decimal digit or a value out of range
NoInt == MinInt - 1
RECURSIVE DecimalValue(_, _)
DecimalValue(text, acc) ==
    IF text = <<>> THEN acc
    ELSE IF acc > MaxInt \/ Head(text) \notin Digits THEN NoInt
    ELSE DecimalValue(Tail(text), 10 * acc + DigitValue(Head(text)))
ParseInt(text) ==
    IF text = <<>> THEN NoInt
    ELSE LET v == DecimalValue(text, 0) IN IF v = NoInt \/ v > MaxInt THEN NoInt ELSE v

\* strconv.ParseFloat(text, 64): ok for digits with one decimal point
ParseFloatOk(text) ==
    /\ \A i \in 1..Len(text) : text[i] \in Digits \cup {"."}
    /\ Cardinality({i \in 1..Len(text) : text[i] = "."}) = 1
    /\ Len(text) >= 2

\* evaluateExprWithSpecIndex
evaluateBasicLit(lit) ==
    CASE lit.op = "STRING" ->
            IF UnquoteOk(lit.text) THEN StringValue(SubSeq(lit.text, 2, Len(lit.text) - 1))
            ELSE IF Len(lit.text) < 2 THEN Panicked
            ELSE StringValue(SubSeq(lit.text, 2, Len(lit.text) - 1))
      [] lit.op = "INT" ->
            IF ParseInt(lit.text) # NoInt THEN IntValue(ParseInt(lit.text)) ELSE EmptyValue
      [] lit.op = "FLOAT" ->
            IF ParseFloatOk(lit.text) THEN FloatValue(lit.text) ELSE EmptyValue
      [] lit.op = "CHAR" -> StringValue(lit.text)
      [] OTHER -> EmptyValue

evaluateIntOp_Unbounded(op, left, right) ==
    CASE op = "+" -> IntValue(left + right)
      [] op = "-" -> IntValue(left - right)
      [] op = "*" -> IntValue(left * right)
      [] op = "/" -> IF right # 0 THEN IntValue(GoQuo(left, right)) ELSE EmptyValue
      [] op = "%" -> IF right # 0 THEN IntValue(GoRem(left, right)) ELSE EmptyValue
      [] op \in {"&", "|", "^"} -> IntValue(Bitwise(op, left, right))
      [] op = "<<" -> IntValue(Shl(left, right))
      [] op = ">>" -> IntValue(Shr(left, right))
      [] OTHER -> EmptyValue

evaluateIntOp(op, left, right) ==
    CASE op = "+" -> IntValue(Wrap(left + right))
      [] op = "-" -> IntValue(Wrap(left - right))
      [] op = "*" -> IntValue(Wrap(left * right))
      [] op = "/" -> IF right # 0 THEN IntValue(GoQuo(left, right)) ELSE EmptyValue
      [] op = "%" -> IF right # 0 THEN IntValue(GoRem(left, right)) ELSE EmptyValue
      [] op \in {"&", "|", "^"} -> IntValue(Bitwise(op, left, right))
      [] op = "<<" -> IntValue(Shl(left, right))
      [] op = ">>" -> IntValue(Shr(left, right))
      [] OTHER -> EmptyValue

evaluateFloatOp(op, left, right) ==
    IF op \in {"+", "-", "*", "/"} THEN FloatValue(left \o right \o <<op>>) ELSE EmptyValue

RECURSIVE evaluateExprWithSpecIndex(_, _)
evaluateExprWithSpecIndex(expr, specIndex) ==
    CASE expr.node = "BasicLit" -> evaluateBasicLit(expr)
      [] expr.node = "Ident" ->
            IF expr.text = <<"iota">> THEN IntValue(specIndex)
            ELSE IF expr.text = <<"true">> THEN BoolValue(TRUE)
            ELSE IF expr.text = <<"false">> THEN BoolValue(FALSE)
            ELSE EmptyValue
      [] expr.node = "UnaryExpr" ->
            IF expr.op # "-" THEN EmptyValue
            ELSE LET val == evaluateExprWithSpecIndex(expr.kids[1], specIndex)
                 IN CASE val.Kind = "panic" -> Panicked
                      [] val.Kind = ConstantInt -> IntValue(Wrap(0 - val.IntValue))
                      [] val.Kind = ConstantFloat -> FloatValue(val.FloatValue \o <<"neg">>)
                      [] OTHER -> EmptyValue
      [] expr.node = "BinaryExpr" ->
            LET left == evaluateExprWithSpecIndex(expr.kids[1], specIndex)
                right == evaluateExprWithSpecIndex(expr.kids[2], specIndex)
            IN CASE left.Kind = "panic" \/ right.Kind = "panic" -> Panicked
                 [] left.Kind = ConstantInt /\ right.Kind = ConstantInt ->
                        evaluateIntOp(expr.op, left.IntValue, right.IntValue)
                 [] left.Kind = ConstantFloat /\ right.Kind = ConstantFloat ->
                        evaluateFloatOp(expr.op, left.FloatValue, right.FloatValue)
                 [] OTHER -> EmptyValue
      [] expr.node = "CallExpr" ->
            IF expr.kids[1].node = "Ident" /\ expr.kids[1].text = <<"len">>
            THEN IntValue(0) ELSE EmptyValue
      [] OTHER -> EmptyValue

\* ------------------------------------------------------------------------
\* The expressions the evaluator is run on
\* ------------------------------------------------------------------------
\* strconv.Itoa, for the literal of the largest integer
RECURSIVE Itoa(_)
Itoa(n) ==
    LET d == CHOOSE c \in Digits : DigitValue(c) = n % 10
    IN IF n < 10 THEN <<d>> ELSE Append(Itoa(n \div 10), d)

IntLit(n) == BasicLit("INT", Itoa(n))

IntOperands == {IntLit(0), IntLit(1), IntLit(7), IntLit(MaxInt), Ident("iota")}

\* literals and identifiers; among them literals the scanner reports as
\* malformed and still hands to the parser
LeafExprs ==
    IntOperands \cup
    { IntLit(100), IntLit(200),
      BasicLit("INT", <<"0", "x", "1", "0">>),
      BasicLit("INT", Itoa(MaxInt) \o <<"0">>),
      BasicLit("STRING", <<Quote, "x", Quote>>),
      BasicLit("STRING", <<Quote, Quote>>),
      BasicLit("STRING", <<Quote, "\\", "q", Quote>>),
      BasicLit("STRING", <<Quote, "x">>),
      BasicLit("STRING", <<Quote>>),
      BasicLit("FLOAT", <<"1", ".", "5">>),
      BasicLit("FLOAT", <<"1", "_", "0", ".", "5">>),
      BasicLit("CHAR", <<"'", "c", "'">>),
      BasicLit("IMAG", <<"2", "i">>),
      Ident("true"), Ident("false"), Ident("len"), Ident("Other") }

\* the operands of the binary expressions: a value of every kind
Operands ==
    IntOperands \cup {UnaryExpr("-", x) : x \in IntOperands}
        \cup { BinaryExpr(UnaryExpr("-", IntLit(MaxInt)), "-", IntLit(1)),
               BasicLit("FLOAT", <<"1", ".", "5">>),
               BasicLit("STRING", <<Quote, "x", Quote>>),
               BasicLit("STRING", <<Quote>>),
               Ident("true"),
               Ident("Other") }

BinaryOps == {"+", "-", "*", "/", "%", "&", "|", "^", "<<", ">>", "&&", "=="}

Exprs ==
    LeafExprs
        \cup {UnaryExpr(op, x) : op \in {"-", "!"}, x \in LeafExprs}
        \cup {BinaryExpr(x, op, y) : x \in Operands, op \in BinaryOps, y \in Operands}
        \cup { CallExpr(Ident("len"), <<BasicLit("STRING", <<Quote, "x", Quote>>)>>),
               CallExpr(Ident("Other"), <<IntLit(1)>>),
               CallExpr(OtherExpr("SelectorExpr", <<Ident("Other")>>), <<>>),
               OtherExpr("ParenExpr", <<IntLit(1)>>),
               UnaryExpr("-", BinaryExpr(BasicLit("FLOAT", <<"1", ".", "5">>), "/",
                                         BasicLit("FLOAT", <<"1", ".", "5">>))) }

\* no constant block is being parsed and no expression evaluated
ParseIdle ==
    /\ mode = "Parse"
    /\ tok = "CONST"
    /\ schemaSet = FALSE
    /\ specs = <<>>
    /\ dErrs = <<>>
    /\ constants = <<>>
    /\ lastType = [variant |-> "nil", name |-> ""]
    /\ lastTypeExpr = ""
    /\ results = <<>>
    /\ pc = "idle"

ParserIdle ==
    /\ evalExpr = Ident("iota")
    /\ evalIndex = 0
    /\ evalValue = EmptyValue
    /\ evalDone = FALSE
    /\ ParseIdle

\* populateEnums is not called
MetaIdle ==
    /\ explicitEnums = {}
    /\ blocks = <<>>
    /\ exportedEnums = {}
    /\ mdEnums = <<>>
    /\ blk = 0
    /\ epc = "idle"
    /\ passes = 0

\* no LSP connection
LspIdle ==
    /\ checker = FALSE
    /\ cancelCheck = 0
    /\ lastDiagURIs = {}
    /\ cancelled = {}
    /\ started = <<>>
    /\ rpc = <<>>
    /\ rchecker = <<>>
    /\ currentURIs = <<>>
    /\ previousURIs = <<>>
    /\ published = {}

\* ------------------------------------------------------------------------
\* schemav2: declarations and types
\* ------------------------------------------------------------------------
None == "-"

\* package-level type declarations of the application
TypeDeclNodes == {"A", "B", "C"}
\* a type declared inside a function body: PkgName() is None
LocalNode == "L"
\* a function declaration (the owner of a type parameter)
FuncNode == "F"
\* encore.dev/config.Value and a named config type "type String = Value[string]"
ConfigValueNode == "V"
ConfigAliasNode == "S"
Nodes == TypeDeclNodes \cup {LocalNode, FuncNode, ConfigValueNode, ConfigAliasNode}

ConfigPath == "encore.dev/config"

IsTypeDecl(n) == n # FuncNode

ImportPath(n) ==
    CASE n \in {"A", "B"} -> "p"
      [] n = "C" -> "q"
      [] n \in {ConfigValueNode, ConfigAliasNode} -> ConfigPath
      [] OTHER -> "p"

\* typeDecl.PkgName(): the name of a package-level declaration, else None
PkgName(n) ==
    CASE n = "A" -> "X"
      [] n = "B" -> "Y"
      [] n = "C" -> "X"
      [] n = ConfigValueNode -> "Value"
      [] n = ConfigAliasNode -> "String"
      [] OTHER -> None

\* DeclInfo.Name
DeclName(n) == IF n = LocalNode THEN "local" ELSE IF n = FuncNode THEN "f" ELSE PkgName(n)

Keys == {<<ImportPath(n), PkgName(n)>> : n \in TypeDeclNodes}

\* A type: one record shape for every variant.
Ty(tag, decl, kids, attr) == [tag |-> tag, decl |-> decl, kids |-> kids, attr |-> attr]

NilType == Ty("nil", None, <<>>, <<>>)
BuiltinType(kind) == Ty("Builtin", None, <<>>, <<kind>>)
NamedType(n, args) == Ty("Named", n, args, <<>>)
\* attr of a struct: per field "plain", "anonymous" or "unexported"
StructType(types, flags) == Ty("Struct", None, types, flags)
MapType(k, v) == Ty("Map", None, <<k, v>>, <<>>)
\* attr of a list: "slice" (Len < 0) or "array" (Len >= 0)
ListType(elem, how) == Ty("List", None, <<elem>>, <<how>>)
PointerType(elem) == Ty("Pointer", None, <<elem>>, <<>>)
OptionType(elem) == Ty("Option", None, <<elem>>, <<>>)
TypeParamRefType(n) == Ty("TypeParamRef", n, <<>>, <<>>)
\* a schemav2 type the metadata does not know (FuncType, InterfaceType)
FuncType == Ty("Func", None, <<>>, <<>>)

\* an activation of b.decl(n) waiting in a frame's work list
DeclCall(n) == Ty("DeclCall", n, <<>>, <<>>)

\* ------------------------------------------------------------------------
\* The applications the builder is run on
\* ------------------------------------------------------------------------
PlainRefs == {NamedType(n, <<>>) : n \in TypeDeclNodes}

\* field types other than a plain reference to a package-level declaration
SpecialTypes ==
    { NilType,
      BuiltinType("string"),
      NamedType(LocalNode, <<>>),
      TypeParamRefType(FuncNode),
      TypeParamRefType("A"),
      NamedType(ConfigValueNode, <<NamedType("B", <<>>)>>),
      NamedType(ConfigAliasNode, <<>>),
      FuncType,
      PointerType(NamedType("B", <<>>)),
      OptionType(NamedType("C", <<>>)),
      MapType(NamedType("A", <<>>), NamedType("C", <<>>)),
      ListType(BuiltinType("uint8"), "array"),
      ListType(NamedType("B", <<>>), "slice"),
      NamedType("C", <<NamedType("A", <<>>)>>),
      StructType(<<NamedType("B", <<>>)>>, <<"plain">>) }

\* a field: its type and whether it is embedded (anonymous) or unexported
SpecialFields ==
    {<<t, "plain">> : t \in SpecialTypes}
        \cup {<<t, f>> : t \in PlainRefs, f \in {"anonymous", "unexported"}}

SeqsUpTo(S, n) == UNION {[1..k -> S] : k \in 0..n}

TotalRefs(a) == LET l(n) == Len(a[n].kids) IN l("A") + l("B") + l("C")

PlainBody(types) == StructType(types, [i \in 1..Len(types) |-> "plain"])

PlainApps ==
    {a \in [TypeDeclNodes -> {PlainBody(ts) : ts \in SeqsUpTo(PlainRefs, MaxFields)}] :
        TotalRefs(a) <= MaxRefs}

\* the application a with field i of declaration n replaced by field f
WithField(a, n, i, f) ==
    [a EXCEPT ![n] = StructType([@.kids EXCEPT ![i] = f[1]], [@.attr EXCEPT ![i] = f[2]])]

\* applications with one special field; they have at most MaxRefs - 1 fields
SpecialApps ==
    UNION { UNION { {WithField(a, n, i, f) : f \in SpecialFields}
                    : i \in 1..Len(a[n].kids) } : a \in {x \in PlainApps : TotalRefs(x) < MaxRefs},
                                                  n \in TypeDeclNodes }

Apps == PlainApps \cup SpecialApps

\* typeDecl.Type
Body(n) ==
    IF n \in TypeDeclNodes THEN app[n]
    ELSE IF n = ConfigAliasNode
         THEN NamedType(ConfigValueNode, <<BuiltinType("string")>>)
         ELSE NilType

\* the types the endpoints' schemas are converted from
RootTypes == PlainRefs

\* ------------------------------------------------------------------------
\* builder.schemaType / builder.decl / builder.declKey
\* ------------------------------------------------------------------------
DeclKeyOf(n) == <<ImportPath(n), PkgName(n)>>

\* the frame at the top of the call stack, and the item it is at
Top == bstack[Len(bstack)]
Item == Head(Top.work)
AtItem(tag) ==
    /\ ~aborted
    /\ bstack # <<>>
    /\ Top.work # <<>>
    /\ Item.tag = tag

\* the top frame goes on with items in place of the item it is at
Continue(items) == [bstack EXCEPT ![Len(bstack)].work = items \o Tail(@)]

Frame(n, idx, work) == [node |-> n, idx |-> idx, work |-> work]

SetDecl_Forgotten(k, n) == decls

\* b.decls[k] = n
SetDecl(k, n) == [x \in DOMAIN decls \cup {k} |-> IF x = k THEN n ELSE decls[x]]

HasDecl_Never(k) == FALSE

\* "if n, ok := b.decls[k]; ok"
HasDecl(k) == k \in DOMAIN decls

\* the types of the fields schemaType converts: "if f.IsAnonymous() { continue }"
RECURSIVE ConvertedFields(_, _)
ConvertedFields(types, flags) ==
    IF types = <<>> THEN <<>>
    ELSE (IF Head(flags) = "anonymous" THEN <<>> ELSE <<Head(types)>>)
             \o ConvertedFields(Tail(types), Tail(flags))

\* configValue: the element type it converts, or FuncType's tag "error" when the
\* named config type is not declared as another named type
RECURSIVE ConfigElem(_)
ConfigElem(typ) ==
    IF DeclName(typ.decl) \in {"Value", "Values"}
    THEN typ.kids[1]
    ELSE IF Body(typ.decl).tag = "Named"
         THEN ConfigElem(Body(typ.decl))
         ELSE Ty("error", None, <<>>, <<>>)

\* the schema.Type schemaType returns, once every declaration below typ has its id
NoId == 0 - 1
RECURSIVE SchemaOf(_)
SchemaOf(typ) ==
    LET sub(ts) == [i \in 1..Len(ts) |-> SchemaOf(ts[i])]
        RECURSIVE exported(_, _)
        exported(ts, fl) ==
            IF ts = <<>> THEN <<>>
            ELSE (IF Head(fl) = "plain" THEN <<SchemaOf(Head(ts))>> ELSE <<>>)
                     \o exported(Tail(ts), Tail(fl))
        nil == Ty("nil", NoId, <<>>, <<>>)
    IN CASE typ.tag = "Builtin" -> Ty("Builtin", NoId, <<>>, typ.attr)
         [] typ.tag = "Named" /\ ImportPath(typ.decl) = ConfigPath ->
                LET e == ConfigElem(typ)
                IN IF e.tag = "error" THEN nil
                   ELSE Ty("Config", NoId, <<SchemaOf(e)>>, <<>>)
         [] typ.tag = "Named" /\ ImportPath(typ.decl) # ConfigPath ->
                Ty("Named", decls[DeclKeyOf(typ.decl)], sub(typ.kids), <<>>)
         [] typ.tag = "Struct" -> Ty("Struct", NoId, exported(typ.kids, typ.attr), <<>>)
         [] typ.tag = "List" /\ typ.attr = <<"array">> /\ typ.kids[1].tag = "Builtin"
                /\ typ.kids[1].attr = <<"uint8">> -> Ty("Builtin", NoId, <<>>, <<"bytes">>)
         [] typ.tag \in {"Map", "List", "Pointer", "Option"} ->
                Ty(typ.tag, NoId, sub(typ.kids), <<>>)
         [] typ.tag = "TypeParamRef" -> Ty("TypeParameter", decls[DeclKeyOf(typ.decl)], <<>>, <<>>)
         [] OTHER -> nil

\* schemaType, "case nil" and "case schemav2.BuiltinType": nothing below to resolve
SchemaTypeLeaf ==
    /\ AtItem("nil") \/ AtItem("Builtin")
    /\ bstack' = Continue(<<>>)
    /\ UNCHANGED <<registryVars, parserVars, metaVars, lspVars>>
    /\ UNCHANGED <<app, decls, mdDecls, usedNamedTypes, errs, aborted, calls, rets, lastCall>>

\* schemaType, "case schemav2.NamedType" of the config package: configValue
SchemaTypeConfig ==
    /\ AtItem("Named")
    /\ ImportPath(Item.decl) = ConfigPath
    /\ LET e == ConfigElem(Item)
       IN IF e.tag = "error"
          THEN /\ errs' = errs + 1
               /\ bstack' = Continue(<<>>)
          ELSE /\ errs' = errs
               /\ bstack' = Continue(<<e>>)
    /\ UNCHANGED <<registryVars, parserVars, metaVars, lspVars>>
    /\ UNCHANGED <<app, decls, mdDecls, usedNamedTypes, aborted, calls, rets, lastCall>>

\* schemaType, "case schemav2.NamedType": the type is recorded as used, then
\* b.decl(typ.Decl()) is evaluated, then the type arguments
SchemaTypeNamed ==
    /\ AtItem("Named")
    /\ ImportPath(Item.decl) # ConfigPath
    /\ usedNamedTypes' = usedNamedTypes \cup {<<ImportPath(Item.decl), DeclName(Item.decl)>>}
    /\ bstack' = Continue(<<DeclCall(Item.decl)>> \o Item.kids)
    /\ UNCHANGED <<registryVars, parserVars, metaVars, lspVars>>
    /\ UNCHANGED <<app, decls, mdDecls, errs, aborted, calls, rets, lastCall>>

\* schemaType, "case schemav2.StructType": every field that is not anonymous
SchemaTypeStruct ==
    /\ AtItem("Struct")
    /\ bstack' = Continue(ConvertedFields(Item.kids, Item.attr))
    /\ UNCHANGED <<registryVars, parserVars, metaVars, lspVars>>
    /\ UNCHANGED <<app, decls, mdDecls, usedNamedTypes, errs, aborted, calls, rets, lastCall>>

\* schemaType, "case schemav2.ListType": a byte array is the builtin BYTES
SchemaTypeList ==
    /\ AtItem("List")
    /\ bstack' = IF Item.attr = <<"array">> /\ Item.kids[1].tag = "Builtin"
                     /\ Item.kids[1].attr = <<"uint8">>
                 THEN Continue(<<>>)
                 ELSE Continue(Item.kids)
    /\ UNCHANGED <<registryVars, parserVars, metaVars, lspVars>>
    /\ UNCHANGED <<app, decls, mdDecls, usedNamedTypes, errs, aborted, calls, rets, lastCall>>

\* schemaType, MapType (key, then value), PointerType and OptionType
SchemaTypeElems ==
    /\ AtItem("Map") \/ AtItem("Pointer") \/ AtItem("Option")
    /\ bstack' = Continue(Item.kids)
    /\ UNCHANGED <<registryVars, parserVars, metaVars, lspVars>>
    /\ UNCHANGED <<app, decls, mdDecls, usedNamedTypes, errs, aborted, calls, rets, lastCall>>

\* schemaType, "case schemav2.TypeParamRefType": b.decl(typ.Decl)
SchemaTypeTypeParamRef ==
    /\ AtItem("TypeParamRef")
    /\ bstack' = Continue(<<DeclCall(Item.decl)>>)
    /\ UNCHANGED <<registryVars, parserVars, metaVars, lspVars>>
    /\ UNCHANGED <<app, decls, mdDecls, usedNamedTypes, errs, aborted, calls, rets, lastCall>>

\* schemaType, "default": the error is added to the list and nil is returned
SchemaTypeDefault ==
    /\ AtItem("Func")
    /\ errs' = errs + 1
    /\ bstack' = Continue(<<>>)
    /\ UNCHANGED <<registryVars, parserVars, metaVars, lspVars>>
    /\ UNCHANGED <<app, decls, mdDecls, usedNamedTypes, aborted, calls, rets, lastCall>>

\* decl: "typeDecl, ok := decl.(*schemav2.TypeDecl); if !ok { b.errs.Fatalf }"
DeclNotTypeDecl ==
    /\ AtItem("DeclCall")
    /\ ~IsTypeDecl(Item.decl)
    /\ errs' = errs + 1
    /\ aborted' = TRUE
    /\ UNCHANGED <<registryVars, parserVars, metaVars, lspVars>>
    /\ UNCHANGED <<app, decls, mdDecls, usedNamedTypes, bstack, calls, rets, lastCall>>

DeclNotPackageLevel_ReturnsZero ==
    /\ AtItem("DeclCall")
    /\ IsTypeDecl(Item.decl)
    /\ PkgName(Item.decl) = None
    /\ errs' = errs + 1
    /\ bstack' = Continue(<<>>)
    /\ UNCHANGED <<registryVars, parserVars, metaVars, lspVars>>
    /\ UNCHANGED <<app, decls, mdDecls, usedNamedTypes, aborted, calls, rets, lastCall>>

\* decl: "pkgName, ok := typeDecl.PkgName().Get(); if !ok { b.errs.Fatalf }"
DeclNotPackageLevel ==
    /\ AtItem("DeclCall")
    /\ IsTypeDecl(Item.decl)
    /\ PkgName(Item.decl) = None
    /\ errs' = errs + 1
    /\ aborted' = TRUE
    /\ UNCHANGED <<registryVars, parserVars, metaVars, lspVars>>
    /\ UNCHANGED <<app, decls, mdDecls, usedNamedTypes, bstack, calls, rets, lastCall>>

\* decl: "if n, ok := b.decls[k]; ok { return n }"
DeclFound ==
    /\ AtItem("DeclCall")
    /\ IsTypeDecl(Item.decl)
    /\ PkgName(Item.decl) # None
    /\ HasDecl(DeclKeyOf(Item.decl))
    /\ LET k == DeclKeyOf(Item.decl)
       IN rets' = [rets EXCEPT ![k] = @ \cup {decls[k]}]
    /\ bstack' = Continue(<<>>)
    /\ UNCHANGED <<registryVars, parserVars, metaVars, lspVars>>
    /\ UNCHANGED <<app, decls, mdDecls, usedNamedTypes, errs, aborted, calls, lastCall>>

\* decl, "Otherwise add it": the id and the entry without its type, then
\* "d.Type = b.schemaType(typeDecl.Type)" starts
DeclAdd ==
    /\ AtItem("DeclCall")
    /\ IsTypeDecl(Item.decl)
    /\ PkgName(Item.decl) # None
    /\ ~HasDecl(DeclKeyOf(Item.decl))
    /\ Len(mdDecls) < MaxEntries
    /\ LET n == Item.decl
           k == DeclKeyOf(n)
           declIdx == Len(mdDecls)
           d == [Id |-> declIdx, Name |-> PkgName(n), PkgPath |-> ImportPath(n),
                 Type |-> Ty("nil", NoId, <<>>, <<>>), resolved |-> FALSE]
       IN /\ decls' = SetDecl(k, declIdx)
          /\ mdDecls' = Append(mdDecls, d)
          /\ bstack' = Append(Continue(<<>>), Frame(n, declIdx, <<Body(n)>>))
    /\ UNCHANGED <<registryVars, parserVars, metaVars, lspVars>>
    /\ UNCHANGED <<app, usedNamedTypes, errs, aborted, calls, rets, lastCall>>

\* decl: schemaType has returned, "d.Type = ..." is assigned, "return declIdx"
DeclReturn ==
    /\ ~aborted
    /\ bstack # <<>>
    /\ Top.work = <<>>
    /\ Top.node # None
    /\ mdDecls' = [mdDecls EXCEPT ![Top.idx + 1].Type = SchemaOf(Body(Top.node)),
                                  ![Top.idx + 1].resolved = TRUE]
    /\ rets' = [rets EXCEPT ![DeclKeyOf(Top.node)] = @ \cup {Top.idx}]
    /\ bstack' = SubSeq(bstack, 1, Len(bstack) - 1)
    /\ UNCHANGED <<registryVars, parserVars, metaVars, lspVars>>
    /\ UNCHANGED <<app, decls, usedNamedTypes, errs, aborted, calls, lastCall>>

\* a caller of the builder calls b.decl(n)
CallDecl ==
    /\ ~aborted
    /\ bstack = <<>>
    /\ calls < MaxCalls
    /\ \E n \in Nodes \ {ConfigValueNode, ConfigAliasNode} :
          /\ bstack' = <<Frame(None, Len(mdDecls), <<DeclCall(n)>>)>>
          /\ lastCall' = [op |-> "decl", node |-> n, done |-> FALSE,
                          len0 |-> Len(mdDecls)]
    /\ calls' = calls + 1
    /\ UNCHANGED <<registryVars, parserVars, metaVars, lspVars>>
    /\ UNCHANGED <<app, decls, mdDecls, usedNamedTypes, errs, aborted, rets>>

\* a caller of the builder calls b.schemaType(t) on an endpoint's schema
CallSchemaType ==
    /\ ~aborted
    /\ bstack = <<>>
    /\ calls < MaxCalls
    /\ \E t \in RootTypes :
          /\ bstack' = <<Frame(None, Len(mdDecls), <<t>>)>>
          /\ lastCall' = [op |-> "schemaType", node |-> t.decl, done |-> FALSE,
                          len0 |-> Len(mdDecls)]
    /\ calls' = calls + 1
    /\ UNCHANGED <<registryVars, parserVars, metaVars, lspVars>>
    /\ UNCHANGED <<app, decls, mdDecls, usedNamedTypes, errs, aborted, rets>>

\* the top-level call returns to the caller of the builder
CallReturn ==
    /\ ~aborted
    /\ Len(bstack) = 1
    /\ Top.work = <<>>
    /\ Top.node = None
    /\ bstack' = <<>>
    /\ lastCall' = [lastCall EXCEPT !.done = TRUE]
    /\ UNCHANGED <<registryVars, parserVars, metaVars, lspVars>>
    /\ UNCHANGED <<app, decls, mdDecls, usedNamedTypes, errs, aborted, calls, rets>>

\* declKey: the id of a key, a new one when the key has none
CallDeclKey ==
    /\ ~aborted
    /\ bstack = <<>>
    /\ calls < MaxCalls
    /\ \E k \in Keys :
          decls' = IF HasDecl(k) THEN decls
                   ELSE SetDecl(k, Cardinality(DOMAIN decls))
    /\ calls' = calls + 1
    /\ UNCHANGED <<registryVars, parserVars, metaVars, lspVars>>
    /\ UNCHANGED <<app, mdDecls, usedNamedTypes, errs, aborted, bstack, rets, lastCall>>

\* no metadata document: the registry is not in use
RegistryIdle ==
    /\ md = [Decls |-> <<>>]
    /\ namespaces = [ns \in {} |-> <<>>]
    /\ seenDecls = {}
    /\ declRefs = [i \in {} |-> {}]
    /\ currDecl = NoId
    /\ enums = [ns \in {} |-> <<>>]
    /\ vstack = <<>>
    /\ visits = 0
    /\ phase = "idle"
    /\ nss = <<>>

InitBuilder ==
    /\ MetaIdle
    /\ LspIdle
    /\ RegistryIdle
    /\ ParserIdle
    /\ app \in Apps
    /\ decls = [k \in {} |-> 0]
    /\ mdDecls = <<>>
    /\ usedNamedTypes = {}
    /\ errs = 0
    /\ aborted = FALSE
    /\ bstack = <<>>
    /\ calls = 0
    /\ rets = [k \in Keys |-> {}]
    /\ lastCall = [op |-> "none", node |-> None, done |-> FALSE, len0 |-> 0]

StepBuilder ==
    \/ SchemaTypeLeaf
    \/ SchemaTypeConfig
    \/ SchemaTypeNamed
    \/ SchemaTypeStruct
    \/ SchemaTypeList
    \/ SchemaTypeElems
    \/ SchemaTypeTypeParamRef
    \/ SchemaTypeDefault
    \/ DeclNotTypeDecl
    \/ DeclNotPackageLevel
    \/ DeclFound
    \/ DeclAdd
    \/ DeclReturn
    \/ CallReturn

\* the builder as the application uses it: decl and schemaType
NextDecl == CallDecl \/ CallSchemaType \/ StepBuilder

SpecDecl == InitBuilder /\ [][NextDecl]_vars

\* the builder with declKey among the calls
NextDeclKey == CallDecl \/ CallSchemaType \/ CallDeclKey \/ StepBuilder

SpecDeclKey == InitBuilder /\ [][NextDeclKey]_vars

\* ------------------------------------------------------------------------
\* clientgen: the metadata documents the type registry is run on
\* ------------------------------------------------------------------------
\* ids of the declarations of the document; the builder numbers them by
\* position, Decls[i].Id = i
DeclIds == {0, 1, 2}
\* decl.Loc.PkgName: two namespaces
LocPkgName(id) == IF id % 2 = 0 THEN "a" ELSE "b"
\* decl.Name: a name used in both namespaces, and another one
NameOfDecl(id) == IF id \in {0, 1} THEN "X" ELSE "Y"

\* schema.Type: one record shape for every variant of the oneof
SchemaType(tag, id, kids) == [tag |-> tag, id |-> id, kids |-> kids]
\* a nil *schema.Type
NilSchema == SchemaType("nil", NoId, <<>>)
\* a schema.Type whose Typ is not set, or a variant Visit does not know
UnsetSchema == SchemaType("unset", NoId, <<>>)
Named(id, args) == SchemaType("Named", id, args)
Struct(fields) == SchemaType("Struct", NoId, fields)

PlainNamed == {Named(id, <<>>) : id \in DeclIds}

\* field types other than a plain Named reference
ShapedTypes ==
    { NilSchema,
      UnsetSchema,
      SchemaType("Builtin", NoId, <<>>),
      SchemaType("TypeParameter", NoId, <<>>),
      SchemaType("Literal", NoId, <<>>),
      SchemaType("List", NoId, <<Named(1, <<>>)>>),
      SchemaType("Map", NoId, <<Named(0, <<>>), Named(2, <<>>)>>),
      SchemaType("Pointer", NoId, <<Named(2, <<>>)>>),
      SchemaType("Option", NoId, <<Named(0, <<>>)>>),
      SchemaType("Config", NoId, <<Named(1, <<>>)>>),
      SchemaType("Union", NoId, <<Named(1, <<>>), Named(2, <<>>)>>),
      Named(2, <<Named(0, <<>>)>>),
      Struct(<<Named(1, <<>>)>>) }

TotalFields(g) == Len(g[0].kids) + Len(g[1].kids) + Len(g[2].kids)

\* declaration bodies that are structs of plain Named fields
PlainBodies ==
    {g \in [DeclIds -> {Struct(ts) : ts \in SeqsUpTo(PlainNamed, MaxFields)}] :
        TotalFields(g) <= MaxEdges}

\* the same with one field of another shape
ShapedBodies ==
    UNION { UNION { {[g EXCEPT ![id].kids[j] = t] : t \in ShapedTypes}
                    : j \in 1..Len(g[id].kids) }
            : g \in {x \in PlainBodies : TotalFields(x) <= MaxShapeEdges}, id \in DeclIds }

\* meta.Data with the declarations g
MetaData(g) ==
    [Decls |-> [id \in DeclIds |->
        [Id |-> id, Name |-> NameOfDecl(id), PkgName |-> LocPkgName(id), Type |-> g[id]]]]

\* the schemas getNamedTypes visits: of an endpoint or of the auth handler,
\* nil where the endpoint has none
VisitRoots == PlainNamed \cup {NilSchema}

\* md.Enums entries: PkgName "" is an enum of no package
EnumChoices ==
    { [PkgName |-> "a", Name |-> "X"],
      [PkgName |-> "b", Name |-> "X"],
      [PkgName |-> "a", Name |-> "Z"],
      [PkgName |-> "", Name |-> "X"] }

\* ------------------------------------------------------------------------
\* clientgen: typeRegistry
\* ------------------------------------------------------------------------
\* A frame of vstack is an activation of visitDecl (decl, with the saved prev)
\* or the root Visit (decl = NoId); its work is what Visit and visitNamed
\* still have to do in it.  visitNamed's local curr is v.currDecl at the time
\* of the copy too, as every call made in between restores it.  declRefs is
\* total over the ids: an id without a map reads as the empty set, as in Go.
\* No document has a nil entry in Decls, and r.constants, which no query
\* below reads, is left out.
VTop == vstack[Len(vstack)]
VItem == Head(VTop.work)
\* Visit is at a type of one of the variants tags
VisitAt(tags) ==
    /\ phase = "visit"
    /\ vstack # <<>>
    /\ VTop.work # <<>>
    /\ VItem.tag \in tags

\* the activation at the top goes on with items, then with the rest of its work
VContinue(items) == [vstack EXCEPT ![Len(vstack)].work = items \o Tail(@)]

\* visitNamed after visitDecl has returned: "Add transitive refs"
TransitiveRefs(to) == SchemaType("TransitiveRefs", to, <<>>)

\* visitNamed: "v.declRefs[from][to] = true" (no current declaration: no edge)
RecordEdge_Symmetric(from, to) ==
    IF from = NoId THEN declRefs
    ELSE [declRefs EXCEPT ![from] = @ \cup {to}, ![to] = @ \cup {from}]

RecordEdge(from, to) ==
    IF from = NoId THEN declRefs ELSE [declRefs EXCEPT ![from] = @ \cup {to}]

\* visitDecl: "!v.seenDecls[decl.Id]"
Seen_Never(id) == FALSE

Seen(id) == id \in seenDecls

\* visitDecl: "v.namespaces[ns] = append(v.namespaces[ns], decl)"
AppendDecl(ns, id) ==
    IF ns \in DOMAIN namespaces
    THEN [namespaces EXCEPT ![ns] = Append(@, id)]
    ELSE [n \in DOMAIN namespaces \cup {ns} |-> IF n = ns THEN <<id>> ELSE namespaces[n]]

\* getNamedTypes: "r.Visit(rpc.RequestSchema)" and the other root visits
CallVisit ==
    /\ phase = "visit"
    /\ vstack = <<>>
    /\ visits < MaxVisits
    /\ \E typ \in VisitRoots : vstack' = <<[decl |-> NoId, prev |-> NoId, work |-> <<typ>>]>>
    /\ visits' = visits + 1
    /\ UNCHANGED <<nss, md, namespaces, seenDecls, declRefs, currDecl, enums, phase>>
    /\ UNCHANGED <<builderVars, parserVars, metaVars, lspVars>>

\* Visit: "typ == nil", Builtin, TypeParameter, Literal
VisitLeaf ==
    /\ VisitAt({"nil", "Builtin", "TypeParameter", "Literal"})
    /\ vstack' = VContinue(<<>>)
    /\ UNCHANGED <<nss, md, namespaces, seenDecls, declRefs, currDecl, enums, visits, phase>>
    /\ UNCHANGED <<builderVars, parserVars, metaVars, lspVars>>

\* Visit: List, Map, Struct, Pointer, Option, Config, Union
VisitElems ==
    /\ VisitAt({"List", "Map", "Struct", "Pointer", "Option", "Config", "Union"})
    /\ vstack' = VContinue(VItem.kids)
    /\ UNCHANGED <<nss, md, namespaces, seenDecls, declRefs, currDecl, enums, visits, phase>>
    /\ UNCHANGED <<builderVars, parserVars, metaVars, lspVars>>

\* Visit: "default: panic"
VisitUnhandled ==
    /\ VisitAt({"unset"})
    /\ phase' = "panic"
    /\ UNCHANGED <<nss, md, namespaces, seenDecls, declRefs, currDecl, enums, vstack, visits>>
    /\ UNCHANGED <<builderVars, parserVars, metaVars, lspVars>>

\* visitNamed and visitDecl, the declaration has been seen: the edge
VisitNamedSeen_NoEdge ==
    /\ VisitAt({"Named"})
    /\ Seen(VItem.id)
    /\ vstack' = VContinue(<<TransitiveRefs(VItem.id)>> \o VItem.kids)
    /\ UNCHANGED <<nss, md, namespaces, seenDecls, declRefs, currDecl, enums, visits, phase>>
    /\ UNCHANGED <<builderVars, parserVars, metaVars, lspVars>>

VisitNamedSeen ==
    /\ VisitAt({"Named"})
    /\ Seen(VItem.id)
    /\ declRefs' = RecordEdge(currDecl, VItem.id)
    /\ vstack' = VContinue(<<TransitiveRefs(VItem.id)>> \o VItem.kids)
    /\ UNCHANGED <<nss, md, namespaces, seenDecls, currDecl, enums, visits, phase>>
    /\ UNCHANGED <<builderVars, parserVars, metaVars, lspVars>>

\* visitNamed and visitDecl, a new declaration: the edge, then seen, listed
\* in its namespace and visited as the current declaration
VisitNamedNew ==
    /\ VisitAt({"Named"})
    /\ ~Seen(VItem.id)
    /\ LET to == VItem.id
           decl == md.Decls[to]
       IN /\ declRefs' = RecordEdge(currDecl, to)
          /\ seenDecls' = seenDecls \cup {decl.Id}
          /\ namespaces' = AppendDecl(decl.PkgName, decl.Id)
          /\ currDecl' = decl.Id
          /\ vstack' = Append(VContinue(<<TransitiveRefs(to)>> \o VItem.kids),
                              [decl |-> decl.Id, prev |-> currDecl, work |-> <<decl.Type>>])
    /\ UNCHANGED <<nss, md, enums, visits, phase>>
    /\ UNCHANGED <<builderVars, parserVars, metaVars, lspVars>>

\* visitNamed: "for to2 := range v.declRefs[to] { v.declRefs[from][to2] = true }"
AddTransitiveRefs_NoCopy ==
    /\ VisitAt({"TransitiveRefs"})
    /\ vstack' = VContinue(<<>>)
    /\ UNCHANGED <<nss, md, namespaces, seenDecls, declRefs, currDecl, enums, visits, phase>>
    /\ UNCHANGED <<builderVars, parserVars, metaVars, lspVars>>

AddTransitiveRefs ==
    /\ VisitAt({"TransitiveRefs"})
    /\ declRefs' = IF currDecl = NoId THEN declRefs
                   ELSE [declRefs EXCEPT ![currDecl] = @ \cup declRefs[VItem.id]]
    /\ vstack' = VContinue(<<>>)
    /\ UNCHANGED <<nss, md, namespaces, seenDecls, currDecl, enums, visits, phase>>
    /\ UNCHANGED <<builderVars, parserVars, metaVars, lspVars>>

\* visitDecl: "v.currDecl = prev" and return; the root Visit returns
VisitReturn ==
    /\ phase = "visit"
    /\ vstack # <<>>
    /\ VTop.work = <<>>
    /\ currDecl' = IF VTop.decl = NoId THEN currDecl ELSE VTop.prev
    /\ vstack' = SubSeq(vstack, 1, Len(vstack) - 1)
    /\ UNCHANGED <<nss, md, namespaces, seenDecls, declRefs, enums, visits, phase>>
    /\ UNCHANGED <<builderVars, parserVars, metaVars, lspVars>>

\* getNamedTypes: r.enums[enum.PkgName] = append(..., enum), PkgName "" skipped
GroupEnums(es) ==
    LET kept == SelectSeq(es, LAMBDA e : e.PkgName # "")
    IN [ns \in {kept[i].PkgName : i \in 1..Len(kept)} |->
            SelectSeq(kept, LAMBDA e : e.PkgName = ns)]

\* enumNames of the filter
EnumNames(en, ns) == {en[ns][i].Name : i \in 1..Len(en[ns])}

\* getNamedTypes: "Filter out any named types that are also enums"
FilterEnums_Nothing(en) == namespaces

FilterEnums_AnyNamespace(en) ==
    [ns \in DOMAIN namespaces |->
        SelectSeq(namespaces[ns],
                  LAMBDA id : \A n \in DOMAIN en : md.Decls[id].Name \notin EnumNames(en, n))]

FilterEnums(en) ==
    [ns \in DOMAIN namespaces |->
        IF ns \in DOMAIN en
        THEN SelectSeq(namespaces[ns], LAMBDA id : md.Decls[id].Name \notin EnumNames(en, ns))
        ELSE namespaces[ns]]

\* getNamedTypes after the visits: the enums and the filter
PostProcess ==
    /\ phase = "visit"
    /\ vstack = <<>>
    /\ \E es \in SeqsUpTo(EnumChoices, MaxEnums) :
          /\ enums' = GroupEnums(es)
          /\ namespaces' = FilterEnums(GroupEnums(es))
    /\ phase' = "done"
    /\ UNCHANGED <<nss, md, seenDecls, declRefs, currDecl, vstack, visits>>
    /\ UNCHANGED <<builderVars, parserVars, metaVars, lspVars>>

\* typeRegistry.Decls
Decls(name) == IF name \in DOMAIN namespaces THEN namespaces[name] ELSE <<>>

\* typeRegistry.IsRecursiveRef
IsRecursiveRef(from, to) == to \in declRefs[from] /\ from \in declRefs[to]

\* typeRegistry.Enums
Enums(pkgName) == IF pkgName \in DOMAIN enums THEN enums[pkgName] ELSE <<>>

\* the order of strings, on the package names of the documents
StrLess(x, y) == x = "a" /\ y = "b"

\* sort.Strings
Insert(x, s) ==
    SelectSeq(s, LAMBDA y : ~StrLess(x, y)) \o <<x>> \o SelectSeq(s, LAMBDA y : StrLess(x, y))

SortStrings_Unsorted(s) == s

RECURSIVE SortStrings(_)
SortStrings(s) == IF s = <<>> THEN <<>> ELSE Insert(Head(s), SortStrings(Tail(s)))

\* the orders in which "for ns := range v.namespaces" can yield the keys
KeyOrders(S) ==
    {o \in [1..Cardinality(S) -> S] : \A i, j \in 1..Cardinality(S) : o[i] = o[j] => i = j}

\* typeRegistry.Namespaces, called on the registry getNamedTypes returned
CallNamespaces ==
    /\ phase = "done"
    /\ \E o \in KeyOrders(DOMAIN namespaces) : nss' = SortStrings(o)
    /\ UNCHANGED <<md, namespaces, seenDecls, declRefs, currDecl, enums, vstack, visits, phase>>
    /\ UNCHANGED <<builderVars, parserVars, metaVars, lspVars>>

\* no application: the builder is not in use
BuilderIdle ==
    /\ app = [n \in TypeDeclNodes |-> PlainBody(<<>>)]
    /\ decls = [k \in {} |-> 0]
    /\ mdDecls = <<>>
    /\ usedNamedTypes = {}
    /\ errs = 0
    /\ aborted = FALSE
    /\ bstack = <<>>
    /\ calls = 0
    /\ rets = [k \in Keys |-> {}]
    /\ lastCall = [op |-> "none", node |-> None, done |-> FALSE, len0 |-> 0]

\* getNamedTypes: the registry as constructed
InitRegistry ==
    /\ MetaIdle
    /\ LspIdle
    /\ BuilderIdle
    /\ ParserIdle
    /\ md \in {MetaData(g) : g \in PlainBodies \cup ShapedBodies}
    /\ namespaces = [ns \in {} |-> <<>>]
    /\ seenDecls = {}
    /\ declRefs = [id \in DeclIds |-> {}]
    /\ currDecl = NoId
    /\ enums = [ns \in {} |-> <<>>]
    /\ vstack = <<>>
    /\ visits = 0
    /\ phase = "visit"
    /\ nss = <<>>

NextVisit ==
    \/ CallVisit
    \/ VisitLeaf
    \/ VisitElems
    \/ VisitUnhandled
    \/ VisitNamedSeen
    \/ VisitNamedNew
    \/ AddTransitiveRefs
    \/ VisitReturn
    \/ PostProcess
    \/ CallNamespaces

SpecVisit == InitRegistry /\ [][NextVisit]_vars

\* ------------------------------------------------------------------------
\* parser/apis/constant: calls of the evaluator
\* ------------------------------------------------------------------------
\* a call of evaluateExprWithSpecIndex
Evaluate ==
    /\ ~evalDone
    /\ evalValue' = evaluateExprWithSpecIndex(evalExpr, evalIndex)
    /\ evalDone' = TRUE
    /\ UNCHANGED <<evalExpr, evalIndex>>
    /\ UNCHANGED <<mode, tok, schemaSet, specs, dErrs, constants, lastType, lastTypeExpr, results, pc>>
    /\ UNCHANGED <<builderVars, registryVars, metaVars, lspVars>>

InitEval ==
    /\ MetaIdle
    /\ LspIdle
    /\ BuilderIdle
    /\ RegistryIdle
    /\ evalExpr \in Exprs
    /\ evalIndex \in 0..(MaxSpecs - 1)
    /\ evalValue = EmptyValue
    /\ evalDone = FALSE
    /\ ParseIdle

NextEval == Evaluate

SpecEval == InitEval /\ [][NextEval]_vars

\* ------------------------------------------------------------------------
\* parser/apis/constant: the const blocks Parse is run on
\* ------------------------------------------------------------------------
\* valueSpec.Type == nil
NoTypeExpr == ""
\* type expressions: two builtin kinds and two named declarations
TypeExprs == {"int", "string", "Status", "Priority"}

\* schema.Type as Parse sees it: the variant and what it names
SchemaNil == [variant |-> "nil", name |-> ""]
\* d.Schema.ParseType
ParseType(expr) ==
    IF expr \in {"int", "string"}
    THEN [variant |-> "Builtin", name |-> expr]
    ELSE [variant |-> "Named", name |-> expr]
\* namedType.DeclInfo.Doc: Status has a doc comment, Priority has none
DeclInfoDoc(name) == IF name = "Status" THEN "status doc" ELSE ""
\* d.Doc
BlockDoc == "block doc"

\* identifiers, as characters; ast.Ident.IsExported looks at the first one
UpperCase == {"A", "B"}
IsExported(name) == Head(name) \in UpperCase
NameLists ==
    { <<<<"a", "1">>>>,
      <<<<"A", "1">>, <<"A", "2">>>>,
      <<<<"A", "1", "0">>, <<"A", "1", "1">>>>,
      <<<<"b", "1">>, <<"B", "x">>>> }

\* valueSpec.Values: none, one expression, and one for each of two names
ValueLists == {<<>>, <<Ident("iota")>>, <<IntLit(100), IntLit(200)>>}

ValueSpec(type, names, values) == [Type |-> type, Names |-> names, Values |-> values]
ValueSpecs ==
    {ValueSpec(t, n, v) : t \in TypeExprs \cup {NoTypeExpr}, n \in NameLists, v \in ValueLists}

\* the place of name i (from 0) of spec s (from 0): a spec on each line
NameLoc(s, i, name) ==
    [StartPos |-> 100 * s + 10 * i + 1,
     EndPos |-> 100 * s + 10 * i + 1 + Len(name),
     SrcLineStart |-> s + 1,
     SrcLineEnd |-> s + 1,
     SrcColStart |-> 10 * i + 1,
     SrcColEnd |-> 10 * i + 1 + Len(name)]

\* ------------------------------------------------------------------------
\* parser/apis/constant: Parse, ParseWithoutDirective, tryGroupAsEnum
\* ------------------------------------------------------------------------
\* the closure schemaType of Parse
schemaType(expr) == IF schemaSet THEN ParseType(expr) ELSE SchemaNil

\* evaluateConstantWithSpecIndex (valueIndex from 0)
evaluateConstantWithSpecIndex_ByName(values, valueIndex, specIndex) ==
    IF Len(values) > valueIndex
    THEN evaluateExprWithSpecIndex(values[valueIndex + 1], specIndex)
    ELSE IntValue(valueIndex)

evaluateConstantWithSpecIndex(values, valueIndex, specIndex) ==
    IF Len(values) > valueIndex
    THEN evaluateExprWithSpecIndex(values[valueIndex + 1], specIndex)
    ELSE IntValue(specIndex)

\* typesEqual
typesEqual(t1, t2) ==
    IF t1.variant = "nil" \/ t2.variant = "nil" THEN t1 = t2
    ELSE IF t1.variant = "Builtin" /\ t2.variant = "Builtin" THEN TRUE
    ELSE IF t1.variant = "Named" /\ t2.variant = "Named" THEN TRUE
    ELSE FALSE

\* tryGroupAsEnum: the derivation of the enum's name
EnumName(cs) ==
    LET first == cs[1].Name
        idx == Len(first) - 1
        prefix == SubSeq(first, 1, idx)
    IN IF cs[1].Type.variant = "Named" THEN <<cs[1].Type.name>>
       ELSE IF idx > 0 /\ first[idx + 1] \in Digits
                 /\ \A k \in 2..Len(cs) :
                       Len(cs[k].Name) >= idx /\ SubSeq(cs[k].Name, 1, idx) = prefix
       THEN prefix
       ELSE first

EnumDoc(cs) ==
    IF cs[1].Type.variant = "Named" /\ DeclInfoDoc(cs[1].Type.name) # ""
    THEN DeclInfoDoc(cs[1].Type.name) ELSE BlockDoc

\* tryGroupAsEnum: <<>> for nil, else the enum
tryGroupAsEnum_FirstTwo(cs) ==
    IF Len(cs) < 2 THEN <<>>
    ELSE << [ Name |-> EnumName(cs),
              UnderlyingType |-> cs[1].Type,
              Members |-> SubSeq(cs, 1, 2),
              Doc |-> EnumDoc(cs),
              Loc |-> [cs[1].Loc EXCEPT !.EndPos = cs[2].Loc.EndPos] ] >>

tryGroupAsEnum(cs) ==
    IF Len(cs) < 2 THEN <<>>
    ELSE IF cs[1].Type.variant = "nil" THEN <<>>
    ELSE IF \E k \in 2..Len(cs) :
                cs[k].Type.variant = "nil" \/ ~typesEqual(cs[1].Type, cs[k].Type) THEN <<>>
    ELSE << [ Name |-> EnumName(cs),
              UnderlyingType |-> cs[1].Type,
              Members |-> cs,
              Doc |-> EnumDoc(cs),
              Loc |-> [cs[1].Loc EXCEPT !.EndPos = cs[Len(cs)].Loc.EndPos] ] >>

\* the constants of spec number specIndex, one per exported name
SpecConstants_ByMode(spec, specIndex, typ) ==
    SelectSeq([k \in 1..Len(spec.Names) |->
                  [ Name |-> spec.Names[k],
                    Type |-> typ,
                    Value |-> evaluateConstantWithSpecIndex(spec.Values, k - 1, specIndex),
                    Doc |-> BlockDoc,
                    Loc |-> NameLoc(specIndex, k - 1, spec.Names[k]) ]],
              LAMBDA c : mode = "ParseWithoutDirective" \/ IsExported(c.Name))

SpecConstants(spec, specIndex, typ) ==
    SelectSeq([k \in 1..Len(spec.Names) |->
                  [ Name |-> spec.Names[k],
                    Type |-> typ,
                    Value |-> evaluateConstantWithSpecIndex(spec.Values, k - 1, specIndex),
                    Doc |-> BlockDoc,
                    Loc |-> NameLoc(specIndex, k - 1, spec.Names[k]) ]],
              LAMBDA c : IsExported(c.Name))

\* Parse: errUnexportedConstant for each name that is not exported
SpecErrors_None(spec, specIndex) == <<>>

SpecErrors(spec, specIndex) ==
    SelectSeq([k \in 1..Len(spec.Names) |->
                  [err |-> "errUnexportedConstant", name |-> spec.Names[k],
                   pos |-> NameLoc(specIndex, k - 1, spec.Names[k]).StartPos]],
              LAMBDA e : ~IsExported(e.name))

\* "d.Errs.Add": Parse reports, ParseWithoutDirective skips in silence
ReportsErrors_Always(m) == TRUE

ReportsErrors(m) == m = "Parse"

\* "Update inherited type if this spec has an explicit type", "typ := lastType"
InheritedType_OwnOnly(spec) ==
    IF spec.Type # NoTypeExpr THEN schemaType(spec.Type) ELSE SchemaNil

InheritedType(spec) ==
    IF spec.Type # NoTypeExpr THEN schemaType(spec.Type) ELSE lastType

\* Parse and ParseWithoutDirective on a declaration that is not a const block
ParseNotConst ==
    /\ pc = "loop"
    /\ tok # "CONST"
    /\ dErrs' = IF ReportsErrors(mode)
                THEN Append(dErrs, [err |-> "errInvalidConstant", name |-> <<>>, pos |-> 0])
                ELSE dErrs
    /\ results' = <<>>
    /\ pc' = "done"
    /\ UNCHANGED <<mode, tok, schemaSet, specs, constants, lastType, lastTypeExpr>>
    /\ UNCHANGED <<evalExpr, evalIndex, evalValue, evalDone>>
    /\ UNCHANGED <<builderVars, registryVars, metaVars, lspVars>>

\* one round of "for specIndex, spec := range d.Decl.Specs"
ParseSpec ==
    /\ pc = "loop"
    /\ tok = "CONST"
    /\ Len(specs) < MaxSpecs
    /\ \E spec \in ValueSpecs :
          LET specIndex == Len(specs)
              typ == InheritedType(spec)
          IN /\ specs' = Append(specs, spec)
             /\ lastTypeExpr' = IF spec.Type # NoTypeExpr THEN spec.Type ELSE lastTypeExpr
             /\ lastType' = typ
             /\ dErrs' = IF ReportsErrors(mode) THEN dErrs \o SpecErrors(spec, specIndex) ELSE dErrs
             /\ constants' = constants \o SpecConstants(spec, specIndex, typ)
    /\ UNCHANGED <<mode, tok, schemaSet, results, pc>>
    /\ UNCHANGED <<evalExpr, evalIndex, evalValue, evalDone>>
    /\ UNCHANGED <<builderVars, registryVars, metaVars, lspVars>>

\* after the loop: nothing, one enum, or the constants
ParseReturn ==
    /\ pc = "loop"
    /\ tok = "CONST"
    /\ results' =
          IF constants = <<>> THEN <<>>
          ELSE IF tryGroupAsEnum(constants) # <<>>
          THEN <<[kind |-> "Enum", item |-> tryGroupAsEnum(constants)[1]]>>
          ELSE [k \in 1..Len(constants) |-> [kind |-> "Constant", item |-> constants[k]]]
    /\ pc' = "done"
    /\ UNCHANGED <<mode, tok, schemaSet, specs, dErrs, constants, lastType, lastTypeExpr>>
    /\ UNCHANGED <<evalExpr, evalIndex, evalValue, evalDone>>
    /\ UNCHANGED <<builderVars, registryVars, metaVars, lspVars>>

\* a call of Parse or ParseWithoutDirective
InitParse ==
    /\ MetaIdle
    /\ LspIdle
    /\ BuilderIdle
    /\ RegistryIdle
    /\ evalExpr = Ident("iota")
    /\ evalIndex = 0
    /\ evalValue = EmptyValue
    /\ evalDone = FALSE
    /\ mode \in {"Parse", "ParseWithoutDirective"}
    /\ tok \in {"CONST", "VAR", "TYPE"}
    /\ schemaSet \in BOOLEAN
    /\ specs = <<>>
    /\ dErrs = <<>>
    /\ constants = <<>>
    /\ lastType = SchemaNil
    /\ lastTypeExpr = NoTypeExpr
    /\ results = <<>>
    /\ pc = "loop"

NextParse == ParseNotConst \/ ParseSpec \/ ParseReturn

SpecParse == InitParse /\ [][NextParse]_vars

\* ------------------------------------------------------------------------
\* Properties of the declaration resolver
\* ------------------------------------------------------------------------
EntryKey(i) == <<mdDecls[i].PkgPath, mdDecls[i].Name>>
EntriesOf(k) == {i \in 1..Len(mdDecls) : EntryKey(i) = k}

\* every declaration a type names, wherever it names it
RECURSIVE NamedIn(_)
NamedIn(t) ==
    (IF t.tag \in {"Named", "TypeParamRef"} THEN {t.decl} ELSE {})
        \cup UNION {NamedIn(t.kids[i]) : i \in 1..Len(t.kids)}

\* the declarations a type names outside embedded fields, byte arrays and the
\* config package's wrappers
RECURSIVE ResolvedIn(_)
ResolvedIn(t) ==
    LET all(ts) == UNION {ResolvedIn(ts[i]) : i \in 1..Len(ts)}
    IN CASE t.tag = "Named" /\ ImportPath(t.decl) = ConfigPath ->
                IF ConfigElem(t).tag = "error" THEN {} ELSE ResolvedIn(ConfigElem(t))
         [] t.tag = "Named" /\ ImportPath(t.decl) # ConfigPath -> {t.decl} \cup all(t.kids)
         [] t.tag = "TypeParamRef" -> {t.decl}
         [] t.tag = "Struct" ->
                UNION {ResolvedIn(t.kids[i]) : i \in {j \in 1..Len(t.kids) : t.attr[j] # "anonymous"}}
         [] t.tag = "List" /\ t.attr = <<"array">> /\ t.kids[1].tag = "Builtin" -> {}
         [] OTHER -> all(t.kids)

NamedEdges == UNION {{<<n, m>> : m \in NamedIn(Body(n))} : n \in Nodes}
ResolvedEdges == UNION {{<<n, m>> : m \in ResolvedIn(Body(n))} : n \in Nodes}

\* the nodes reachable from S along E, S included
RECURSIVE Closure(_, _)
Closure(E, S) ==
    LET S2 == S \cup {e[2] : e \in {x \in E : x[1] \in S}}
    IN IF S2 = S THEN S ELSE Closure(E, S2)

\* C1: decl is idempotent per identity: all the calls of decl for one
\* (package path, name) return one id, and the declaration list holds at most
\* one entry for it, whatever other declarations were resolved in between.
C1_DeclIdempotent ==
    \A k \in Keys :
        /\ Cardinality(rets[k]) <= 1
        /\ Cardinality(EntriesOf(k)) <= 1
        /\ rets[k] # {} => rets[k] = {mdDecls[i].Id : i \in EntriesOf(k)}

\* a later top-level call of decl, for a declaration that already had its id,
\* has returned, with other declarations resolved as well
C1_Witness ==
    /\ lastCall.op = "decl"
    /\ lastCall.done
    /\ calls = MaxCalls
    /\ lastCall.len0 = Len(mdDecls)
    /\ rets[DeclKeyOf(lastCall.node)] # {}
    /\ Len(mdDecls) >= 2

TopLevelDone ==
    /\ lastCall.done
    /\ bstack = <<>>
    /\ lastCall.op = "decl"

\* C2 as stated: when a top-level decl call has returned, every declaration
\* reachable from its argument has exactly one entry in the declaration list.
C2_Original ==
    TopLevelDone =>
        \A m \in Closure(NamedEdges, {lastCall.node}) :
            Cardinality(EntriesOf(DeclKeyOf(m))) = 1

NewKeys == {EntryKey(i) : i \in (lastCall.len0 + 1)..Len(mdDecls)}
OldKeys == {EntryKey(i) : i \in 1..lastCall.len0}
ResolvedReach == Closure(ResolvedEdges, {lastCall.node})

C2_Allocation ==
    /\ Len(mdDecls) <= Cardinality(Keys)
    /\ TopLevelDone =>
          /\ \A m \in ResolvedReach : Cardinality(EntriesOf(DeclKeyOf(m))) = 1
          /\ NewKeys = {DeclKeyOf(m) : m \in ResolvedReach} \ OldKeys
          /\ Len(mdDecls) - lastCall.len0 = Cardinality(NewKeys)

\* the work a call still has to do: the nodes of the types in the frames'
\* work lists and the frames themselves, and first of all the declarations
\* that have no id yet
RECURSIVE Weight(_)
Weight(t) ==
    LET RECURSIVE sum(_)
        sum(ts) == IF ts = <<>> THEN 0 ELSE Weight(Head(ts)) + sum(Tail(ts))
    IN (IF t.tag \in {"Named", "TypeParamRef"} THEN 2 ELSE 1) + sum(t.kids)

RECURSIVE WorkWeight(_)
WorkWeight(ts) == IF ts = <<>> THEN 0 ELSE Weight(Head(ts)) + WorkWeight(Tail(ts))

RECURSIVE StackWeight(_)
StackWeight(st) ==
    IF st = <<>> THEN 0 ELSE 1 + WorkWeight(Head(st).work) + StackWeight(Tail(st))

BodyWeight == 2 + Weight(app["A"]) + Weight(app["B"]) + Weight(app["C"])

\* the measure, for bodies of weight w, a key table ds and a call stack st
MeasureOf(w, ds, st) ==
    (Cardinality(Keys) - Cardinality(DOMAIN ds)) * w + StackWeight(st)

Measure == MeasureOf(BodyWeight, decls, bstack)

C2_Progress ==
    (bstack # <<>> /\ ~aborted) => ENABLED StepBuilder

\* the bodies are the same before and after a step, so is their weight
C2_Decreases ==
    bstack # <<>> =>
        \/ aborted'
        \/ /\ app' = app
           /\ LET w == BodyWeight
                  after == MeasureOf(w, decls', bstack')
              IN after < MeasureOf(w, decls, bstack) /\ after >= 0

\* C2 (amended): a top-level decl call returns or aborts, also on self-referential
\* and mutually recursive declarations: while it runs it can always take a step,
\* and every step lowers a non-negative measure of the work left. When it
\* returns it has allocated exactly one entry per declaration that is reachable
\* through the references schemaType resolves (not embedded fields, not the
\* config package's types) and that had no entry before the call.
C2_DeclTerminates ==
    /\ [](C2_Allocation /\ C2_Progress)
    /\ [][C2_Decreases]_vars

\* a top-level decl call on a declaration of a cycle of length 2 or more returned
C2_Witness ==
    /\ TopLevelDone
    /\ lastCall.len0 = 0
    /\ Len(mdDecls) >= 2
    /\ \E m \in ResolvedReach \ {lastCall.node} :
          lastCall.node \in Closure(ResolvedEdges, {m})

\* the frames of decl activations that are resolving a body
BodyFrames == {i \in 1..Len(bstack) : bstack[i].node # None}

C3_Reserved ==
    \A i \in BodyFrames :
        LET f == bstack[i]
            k == DeclKeyOf(f.node)
        IN /\ k \in DOMAIN decls
           /\ decls[k] = f.idx
           /\ f.idx < Len(mdDecls)
           /\ mdDecls[f.idx + 1].Id = f.idx
           /\ EntryKey(f.idx + 1) = k
           /\ mdDecls[f.idx + 1].Type.tag = "nil"
           /\ ~mdDecls[f.idx + 1].resolved

C3_AssignedAtReturn ==
    \A i \in 1..Len(mdDecls) :
        (~mdDecls[i].resolved /\ i <= Len(mdDecls') /\ mdDecls'[i].resolved) =>
            /\ Top.node # None
            /\ Top.idx = i - 1
            /\ Top.work = <<>>
            /\ bstack' = SubSeq(bstack, 1, Len(bstack) - 1)

\* C3: while schemaType resolves the body of a declaration, the declaration's key
\* is in the decl table and its entry, without a type, is in the declaration
\* list; the type is assigned in the step in which that resolution returns.
C3_ReservedBeforeBody == []C3_Reserved /\ [][C3_AssignedAtReturn]_vars

\* the body of a declaration is being resolved inside the body of another
C3_Witness ==
    /\ Cardinality(BodyFrames) >= 2
    /\ Top.node # None
    /\ Top.work # <<>>

\* C4 as stated: distinct keys hold distinct ids, and every id decl has
\* returned is the index of that declaration's entry in the list.
C4_IdsUnique ==
    /\ \A k1, k2 \in DOMAIN decls : k1 # k2 => decls[k1] # decls[k2]
    /\ \A k \in Keys : \A id \in rets[k] :
          /\ id < Len(mdDecls)
          /\ mdDecls[id + 1].Id = id
          /\ EntryKey(id + 1) = k

\* an id, once assigned to a key, never changes
C4_IdsStable ==
    \A k \in DOMAIN decls : k \in DOMAIN decls' /\ decls'[k] = decls[k]

C4_Original == []C4_IdsUnique /\ [][C4_IdsStable]_vars

AtFailingDecl ==
    /\ AtItem("DeclCall")
    /\ ~IsTypeDecl(Item.decl) \/ PkgName(Item.decl) = None

\* C5: decl on a declaration that is not a type declaration, or not at package
\* level, aborts the build (no step follows) and leaves the decl table and the
\* declaration list as they were.
C5_FatalLeavesTables ==
    [][ /\ ~aborted
        /\ AtFailingDecl => (aborted' /\ decls' = decls /\ mdDecls' = mdDecls) ]_vars

\* the build was aborted by a decl call made while another body was resolved
C5_Witness ==
    /\ aborted
    /\ Item.tag = "DeclCall"
    /\ BodyFrames # {}
    /\ mdDecls # <<>>

\* ------------------------------------------------------------------------
\* Properties of the type registry
\* ------------------------------------------------------------------------
\* the declarations a type names, as a field, element or type argument
RECURSIVE NamedIds(_)
NamedIds(t) ==
    (IF t.tag = "Named" THEN {t.id} ELSE {})
        \cup UNION {NamedIds(t.kids[i]) : i \in 1..Len(t.kids)}

\* the Named-reference graph of the document
Refs(id) == NamedIds(md.Decls[id].Type)
RefEdges == UNION {{<<a, b>> : b \in Refs(a)} : a \in DeclIds}
\* the declarations a reference path of length at least 1 leads to from a
ReachPlus(a) == Closure(RefEdges, Refs(a))
\* the pairs <<a, b>> joined by a path of length at least 1 of the relation R
RECURSIVE TransitiveClosure(_)
TransitiveClosure(R) ==
    LET R2 == R \cup UNION {{<<e[1], f[2]>> : f \in {g \in R : g[1] = e[2]}} : e \in R}
    IN IF R2 = R THEN R ELSE TransitiveClosure(R2)
Acyclic ==
    LET paths == TransitiveClosure(RefEdges)
    IN \A a \in DeclIds : <<a, a>> \notin paths

\* no Visit is running and none has panicked
Traversed == phase \in {"visit", "done"} /\ vstack = <<>>

\* C6: when declaration a names b in a field and b names a, then after a
\* traversal that has reached a or b, from whatever root and in whatever
\* order, IsRecursiveRef(a, b) and IsRecursiveRef(b, a) are both true.
C6_TwoCycleRecursive ==
    Traversed =>
        \A a, b \in DeclIds :
            ((a \in seenDecls \/ b \in seenDecls) /\ b \in Refs(a) /\ a \in Refs(b))
                => IsRecursiveRef(a, b) /\ IsRecursiveRef(b, a)

\* a 2-cycle of two declarations, entered through a third one
C6_Witness ==
    /\ Traversed
    /\ \E a, b, c \in DeclIds :
          /\ a # b /\ c \notin {a, b}
          /\ b \in Refs(a) /\ a \in Refs(b) /\ a \in Refs(c)
          /\ Decls(LocPkgName(c)) # <<>> /\ Head(Decls(LocPkgName(c))) = c
          /\ IsRecursiveRef(a, b)

\* C7: in an acyclic Named-reference graph IsRecursiveRef(a, b) is false for
\* every pair of declarations, a = b included, whatever roots were visited
\* and at every moment of the traversal.
C7_AcyclicNeverRecursive ==
    (\E a, b \in DeclIds : IsRecursiveRef(a, b)) => ~Acyclic

\* an acyclic document, all of it traversed, with a copied (transitive) edge
C7_Witness ==
    /\ Traversed
    /\ Acyclic
    /\ seenDecls = DeclIds
    /\ \E a \in DeclIds : declRefs[a] \ Refs(a) # {}

\* C8 as stated: after traversal IsRecursiveRef(a, b) is true exactly when a
\* and b are mutually reachable in the Named-reference graph.
C8_Original ==
    Traversed =>
        \A a, b \in seenDecls :
            IsRecursiveRef(a, b) <=> (b \in ReachPlus(a) /\ a \in ReachPlus(b))

\* the lists name exactly the seen declarations, each once, in its namespace
C9_ListedOnce ==
    phase = "visit" =>
        /\ \A id \in seenDecls :
              /\ LocPkgName(id) \in DOMAIN namespaces
              /\ Cardinality({i \in 1..Len(namespaces[LocPkgName(id)]) :
                                namespaces[LocPkgName(id)][i] = id}) = 1
        /\ \A ns \in DOMAIN namespaces : \A i \in 1..Len(namespaces[ns]) :
              /\ namespaces[ns][i] \in seenDecls
              /\ LocPkgName(namespaces[ns][i]) = ns

\* a step of a Visit changes the lists only by appending one declaration,
\* not seen before, to one list: the lists are in first-seen order
C9_FirstSeenOrder ==
    (phase = "visit" /\ phase' = "visit") =>
        \/ namespaces' = namespaces /\ seenDecls' = seenDecls
        \/ \E id \in DeclIds \ seenDecls :
              /\ seenDecls' = seenDecls \cup {id}
              /\ namespaces' = AppendDecl(LocPkgName(id), id)

\* a Named reference to a seen declaration records the edge (when there is
\* a current declaration) and starts no visit of the declaration
C9_SeenNotDescended ==
    (VisitAt({"Named"}) /\ VItem.id \in seenDecls /\ vstack' # vstack) =>
        /\ currDecl # NoId => VItem.id \in declRefs'[currDecl]
        /\ Len(vstack') = Len(vstack)
        /\ currDecl' = currDecl
        /\ seenDecls' = seenDecls
        /\ namespaces' = namespaces

\* C9: after any sequence of Visit calls every declaration reached is listed
\* exactly once, in the list of its own namespace, the lists are in first-seen
\* order, and a Named reference to a declaration already seen (one still
\* being visited included) records the edge without descending again.
C9_SeenOnceInOrder ==
    []C9_ListedOnce /\ [][C9_FirstSeenOrder /\ C9_SeenNotDescended]_vars

\* every declaration seen; a list of two declarations; a reference back to a
\* declaration still being visited has been recorded
C9_Witness ==
    /\ phase = "visit"
    /\ vstack = <<>>
    /\ seenDecls = DeclIds
    /\ \E ns \in DOMAIN namespaces : Len(namespaces[ns]) = 2
    /\ \E a \in DeclIds : a \in declRefs[a]

\* id is in the list Decls returns for its namespace
Listed(id) == \E i \in 1..Len(Decls(LocPkgName(id))) : Decls(LocPkgName(id))[i] = id
\* the name of id is the name of an enum of its namespace
IsEnumName(id) ==
    LocPkgName(id) \in DOMAIN enums /\ NameOfDecl(id) \in EnumNames(enums, LocPkgName(id))

\* C10: after traversal both ends of every recorded edge are seen and are in
\* the list Decls returns for their namespace, unless the post-processing
\* filter removed the declaration because an enum of the namespace has its name.
C10_EdgesListed ==
    Traversed =>
        \A from \in DeclIds : \A to \in declRefs[from] : \A id \in {from, to} :
            /\ id \in seenDecls
            /\ Listed(id) \/ (phase = "done" /\ IsEnumName(id))

\* after the filter: an edge with one end removed and the other one kept,
\* whose name is the name of an enum of another namespace
C10_Witness ==
    /\ phase = "done"
    /\ \E from \in DeclIds : \E to \in declRefs[from] :
          /\ ~Listed(to) /\ IsEnumName(to)
          /\ Listed(from) /\ NameOfDecl(from) = NameOfDecl(to)

\* the names of the enums Enums returns for a namespace
EnumNamesOf(ns) == {Enums(ns)[i].Name : i \in 1..Len(Enums(ns))}

\* after getNamedTypes no listed declaration has the name of an enum of its
\* namespace, and the listed ones are the other seen ones of the namespace
C11_NoEnumListed ==
    phase = "done" =>
        \A ns \in DOMAIN namespaces :
            /\ \A i \in 1..Len(Decls(ns)) : md.Decls[Decls(ns)[i]].Name \notin EnumNamesOf(ns)
            /\ {Decls(ns)[i] : i \in 1..Len(Decls(ns))}
                  = {id \in seenDecls : /\ md.Decls[id].PkgName = ns
                                        /\ md.Decls[id].Name \notin EnumNamesOf(ns)}

\* the positions of a list the filter keeps, given the enums it runs with
KeptPositions(list, names) == {i \in 1..Len(list) : md.Decls[list[i]].Name \notin names}
\* the k-th smallest of a set of positions
NthOf(P, k) == CHOOSE i \in P : Cardinality({j \in P : j < i}) = k - 1

\* the filter leaves every list with its kept declarations, in the order
\* they had, and creates or drops no list
C11_OrderKept ==
    (phase = "visit" /\ phase' = "done") =>
        /\ DOMAIN namespaces' = DOMAIN namespaces
        /\ \A ns \in DOMAIN namespaces :
              LET names == IF ns \in DOMAIN enums'
                           THEN {enums'[ns][i].Name : i \in 1..Len(enums'[ns])} ELSE {}
                  kept == KeptPositions(namespaces[ns], names)
              IN /\ Len(namespaces'[ns]) = Cardinality(kept)
                 /\ \A k \in 1..Cardinality(kept) :
                       namespaces'[ns][k] = namespaces[ns][NthOf(kept, k)]

\* C11: after getNamedTypes, in every namespace, no declaration of
\* Decls(namespace) has the name of an enum of Enums(namespace), and the
\* declarations that remain are exactly the other seen declarations of the
\* namespace, in their original relative order.
C11_EnumsFiltered == []C11_NoEnumListed /\ [][C11_OrderKept]_vars

\* a namespace with two seen declarations, one removed for an enum of its name
\* and one kept, and another namespace whose declaration of that name is kept
C11_Witness ==
    /\ phase = "done"
    /\ seenDecls = DeclIds
    /\ \E ns \in DOMAIN namespaces :
          /\ Len(Decls(ns)) = 1
          /\ Cardinality({id \in seenDecls : md.Decls[id].PkgName = ns}) = 2
          /\ EnumNamesOf(ns) # {}
    /\ \E id \in DeclIds : Listed(id) /\ \E ns \in DOMAIN enums : md.Decls[id].Name \in EnumNamesOf(ns)

\* s lists the strings of S, each once, in increasing order
SortedListOf(s, S) ==
    /\ {s[i] : i \in 1..Len(s)} = S
    /\ Len(s) = Cardinality(S)
    /\ \A i, j \in 1..Len(s) : i < j => StrLess(s[i], s[j])

\* what Namespaces has returned lists the namespaces that have a list
C12_Sorted == nss # <<>> => SortedListOf(nss, DOMAIN namespaces)

\* a call of Namespaces returns that list and changes no declaration list
C12_CallSorts ==
    (phase = "done" /\ phase' = "done") =>
        /\ SortedListOf(nss', DOMAIN namespaces)
        /\ namespaces' = namespaces

\* C12: Namespaces returns each namespace that has a declaration list exactly
\* once, in lexicographic order, whatever the order the declarations were
\* visited in, and it does not change the order of Decls(namespace).
C12_NamespacesSorted == []C12_Sorted /\ [][C12_CallSorts]_vars

\* Namespaces has returned two namespaces after one root visit that began
\* with a declaration of the later one: no declaration names declaration 1
C12_Witness ==
    /\ phase = "done"
    /\ nss = <<"a", "b">>
    /\ visits = 1
    /\ 1 \in seenDecls
    /\ \A x \in DeclIds : 1 \notin Refs(x)
    /\ Decls("a") # <<>>

\* ------------------------------------------------------------------------
\* Properties of the constant parser
\* ------------------------------------------------------------------------
ConstantKinds == {ConstantString, ConstantInt, ConstantBool, ConstantFloat}

\* C15 as stated: evaluateExprWithSpecIndex returns a value for every
\* expression and never raises, malformed literals, division by zero, odd
\* shift counts, mixed operands and unknown shapes included.
C15_Original == evalDone => evalValue.Kind \in ConstantKinds

\* the places <<s, i>> (both from 0) of the exported names of the specs sp,
\* in declaration order
RECURSIVE ExportedPlaces(_)
ExportedPlaces(sp) ==
    IF sp = <<>> THEN <<>>
    ELSE LET last == sp[Len(sp)]
         IN ExportedPlaces(SubSeq(sp, 1, Len(sp) - 1))
              \o SelectSeq([k \in 1..Len(last.Names) |-> <<Len(sp) - 1, k - 1>>],
                           LAMBDA pl : IsExported(last.Names[pl[2] + 1]))

\* the name at a place
NameAt(pl) == specs[pl[1] + 1].Names[pl[2] + 1]

\* C13: the constant of the exported name at position i of spec number s has
\* the value of the spec's i-th value expression, evaluated with iota = s,
\* when the spec has one, and the integer s otherwise, whatever i is; specs
\* whose names are skipped count.
C13_ValueSelection ==
    LET places == ExportedPlaces(specs)
    IN /\ Len(constants) = Len(places)
       /\ \A k \in 1..Len(constants) :
             LET s == places[k][1]
                 i == places[k][2]
                 values == specs[s + 1].Values
             IN /\ constants[k].Name = NameAt(places[k])
                /\ constants[k].Value =
                      IF i < Len(values)
                      THEN evaluateExprWithSpecIndex(values[i + 1], s)
                      ELSE IntValue(s)

\* a spec of skipped names, then a spec "A1, A2 = iota": A1 is the value of
\* iota and A2, which has no expression, the number of the spec
C13_Witness ==
    /\ Len(specs) = 2
    /\ ExportedPlaces(specs) = <<<<1, 0>>, <<1, 1>>>>
    /\ specs[2].Values = <<Ident("iota")>>
    /\ constants[1].Value = IntValue(1)
    /\ constants[2].Value = IntValue(1)

\* the type the specs up to number s (from 0) give a constant of spec s
ExplicitUpTo(s) == {j \in 1..(s + 1) : specs[j].Type # NoTypeExpr}
LatestExplicit(s) == CHOOSE j \in ExplicitUpTo(s) : \A n \in ExplicitUpTo(s) : n <= j

\* C14: a constant's type is the type of the most recent spec, at or before
\* its own, that declares one, and null when there is none; a spec without a
\* type inherits it with or without value expressions, and a later explicit
\* type replaces it for the specs that follow.
C14_TypeInherited ==
    \A k \in 1..Len(constants) :
        LET s == ExportedPlaces(specs)[k][1]
        IN constants[k].Type =
              IF ExplicitUpTo(s) = {} THEN SchemaNil
              ELSE schemaType(specs[LatestExplicit(s)].Type)

\* a spec with a type, then a spec without one that has value expressions:
\* its constants have the type of the first
C14_Witness ==
    /\ schemaSet
    /\ Len(specs) = 2
    /\ specs[1].Type = "Status"
    /\ specs[2].Type = NoTypeExpr /\ specs[2].Values # <<>>
    /\ constants # <<>>
    /\ constants[Len(constants)].Loc.SrcLineStart = 2
    /\ constants[Len(constants)].Type = ParseType("Status")

\* Parse or ParseWithoutDirective has returned from a const block
Parsed == pc = "done" /\ tok = "CONST"
HasEnum == \E k \in 1..Len(results) : results[k].kind = "Enum"

\* C16 as stated: the constants are grouped as an Enum exactly when there are
\* two of them or more, each has a type, and the types are the same builtin
\* kind or the same named declaration.
C16_Original ==
    Parsed =>
        (HasEnum <=> /\ Len(constants) >= 2
                     /\ \A k \in 1..Len(constants) :
                           /\ constants[k].Type.variant \in {"Builtin", "Named"}
                           /\ constants[k].Type = constants[1].Type)

\* C17: the result of a const block is either one Enum whose members are all
\* the exported constants of the block, or all of them standalone and no
\* Enum; never both, never two Enums.
C17_AllOrNothing ==
    Parsed =>
        /\ Len(constants) = Len(ExportedPlaces(specs))
        /\ \/ /\ Len(results) = 1
              /\ results[1].kind = "Enum"
              /\ results[1].item.Members = constants
           \/ /\ Len(results) = Len(constants)
              /\ \A k \in 1..Len(results) :
                    results[k].kind = "Constant" /\ results[k].item = constants[k]

\* an Enum of four members, from two specs of two names
C17_Witness ==
    /\ Parsed
    /\ HasEnum
    /\ Len(results[1].item.Members) = 4

\* C18 as stated: the members of an Enum are the exported constants in
\* declaration order, one for each exported identifier, and its source range
\* goes from the start of the first member to the end of the last.
C18_Original ==
    (Parsed /\ HasEnum) =>
        LET e == results[1].item
            first == e.Members[1].Loc
            last == e.Members[Len(e.Members)].Loc
        IN /\ Len(e.Members) = Len(ExportedPlaces(specs))
           /\ \A k \in 1..Len(e.Members) : e.Members[k].Name = NameAt(ExportedPlaces(specs)[k])
           /\ e.Loc.StartPos = first.StartPos
           /\ e.Loc.SrcLineStart = first.SrcLineStart
           /\ e.Loc.SrcColStart = first.SrcColStart
           /\ e.Loc.EndPos = last.EndPos
           /\ e.Loc.SrcLineEnd = last.SrcLineEnd
           /\ e.Loc.SrcColEnd = last.SrcColEnd

\* the names of the block that are not exported, as places
UnexportedCount ==
    Cardinality(UNION {{<<s, k>> : k \in {j \in 1..Len(specs[s].Names) :
                                             ~IsExported(specs[s].Names[j])}}
                       : s \in 1..Len(specs)})

\* the constants Parse returned, standalone or as members
Returned ==
    IF HasEnum THEN results[1].item.Members ELSE [k \in 1..Len(results) |-> results[k].item]

\* C19: Parse reports exactly one error for a declaration that is not a const
\* block and returns nothing; for a const block it reports exactly one error
\* for each name that is not exported and returns a constant for every
\* exported name, of the specs before and after such a name too.
C19_ParseErrors ==
    (pc = "done" /\ mode = "Parse") =>
        IF tok # "CONST"
        THEN Len(dErrs) = 1 /\ dErrs[1].err = "errInvalidConstant" /\ results = <<>>
        ELSE /\ Len(dErrs) = UnexportedCount
             /\ \A k \in 1..Len(dErrs) :
                   /\ dErrs[k].err = "errUnexportedConstant"
                   /\ ~IsExported(dErrs[k].name)
                   /\ \A n \in 1..Len(dErrs) : dErrs[n].pos = dErrs[k].pos => n = k
             /\ Len(Returned) = Len(ExportedPlaces(specs))
             /\ \A k \in 1..Len(Returned) : Returned[k].Name = NameAt(ExportedPlaces(specs)[k])

\* a block with names that are not exported in both specs, and an exported
\* name after each
C19_Witness ==
    /\ pc = "done" /\ mode = "Parse" /\ tok = "CONST"
    /\ Len(dErrs) = 2
    /\ Len(Returned) = 2
    /\ dErrs[1].pos < Returned[1].Loc.StartPos
    /\ dErrs[2].pos < Returned[2].Loc.StartPos

\* C20: ParseWithoutDirective never adds an error to the error list; a
\* declaration that is not a const block returns nothing and names that are
\* not exported are skipped.
C20_NoErrors ==
    mode = "ParseWithoutDirective" =>
        /\ dErrs = <<>>
        /\ (pc = "done" /\ tok # "CONST") => results = <<>>
        /\ (pc = "done" /\ tok = "CONST") =>
              /\ Len(Returned) = Len(ExportedPlaces(specs))
              /\ \A k \in 1..Len(Returned) : IsExported(Returned[k].Name)

\* ParseWithoutDirective has returned a constant from a block with a name
\* that is not exported
C20_Witness ==
    /\ pc = "done" /\ mode = "ParseWithoutDirective" /\ tok = "CONST"
    /\ UnexportedCount >= 1
    /\ results # <<>>

\* ------------------------------------------------------------------------
\* legacymeta: populateEnums and addEnumToMeta
\* ------------------------------------------------------------------------
\* const blocks of the application
MaxBlocks == 2
\* calls of populateEnums on one builder
MaxPasses == 2

\* qualified names (package path, name) of the enums the const blocks yield
EnumQNames == {<<"p", "X">>, <<"p", "Y">>}

\* constant.Enum, as far as populateEnums and addEnumToMeta look at it:
\* PkgPath and Name, the qualified name of UnderlyingType when it is a
\* NamedType (<<>>: a BuiltinType), and the Kind of each member's value
Enum(qn, under, kinds) == [qn |-> qn, under |-> under, kinds |-> kinds]

\* a const block that ParseWithoutDirective returns standalone constants for
\* (or nothing)
NoEnum == Enum(<<>>, <<>>, <<>>)

\* tryGroupAsEnum names the enum after its named type, which may be declared
\* in the package of the const block or in another one
UnderlyingTypes(qn) == {<<>>, qn, <<"q", qn[2]>>}

MemberKinds ==
    { <<ConstantInt, ConstantInt>>, <<ConstantInt, ConstantFloat>>,
      <<ConstantFloat, ConstantFloat>> }

BlockResults ==
    {NoEnum} \cup
    {Enum(qn, u, k) : qn \in EnumQNames, u \in {<<>>, <<"p", "X">>, <<"p", "Y">>, <<"q", "X">>, <<"q", "Y">>}, k \in MemberKinds}

\* the members addEnumToMeta converts: those whose value is a string, an
\* int or a bool
EnumDeclMembers(e) ==
    SelectSeq(e.kinds, LAMBDA k : k \in {ConstantString, ConstantInt, ConstantBool})

EnumDecl(e) == [PkgName |-> e.qn[1], Name |-> e.qn[2], Members |-> EnumDeclMembers(e)]

\* addEnumToMeta: b.md.Enums afterwards
addEnumToMeta(e) ==
    IF Len(EnumDeclMembers(e)) > 0 THEN Append(mdEnums, EnumDecl(e)) ELSE mdEnums

\* addEnumToMeta: b.usedNamedTypes after schemaType(e.UnderlyingType)
UsedAfter(e) ==
    IF e.under = <<>> THEN usedNamedTypes ELSE usedNamedTypes \cup {e.under}

\* "Skip if already exported explicitly or already processed"
AlreadyExported(qn) == qn \in explicitEnums \/ qn \in exportedEnums

\* "Only export if used as a dependency"
IsUsed_Always(qn) == TRUE

IsUsed(qn) == qn \in usedNamedTypes

CallPopulateEnums ==
    /\ epc \in {"idle", "done"}
    /\ passes < MaxPasses
    /\ epc' = "loop"
    /\ blk' = 0
    /\ passes' = passes + 1
    /\ UNCHANGED <<explicitEnums, blocks, exportedEnums, mdEnums>>
    /\ UNCHANGED <<builderVars, registryVars, parserVars, lspVars>>

\* a const block whose result is no Enum, or an Enum that is skipped
PopulateEnumsSkip ==
    /\ epc = "loop"
    /\ blk < Len(blocks)
    /\ LET e == blocks[blk + 1] IN
         \/ e = NoEnum
         \/ AlreadyExported(e.qn)
         \/ ~IsUsed(e.qn)
    /\ blk' = blk + 1
    /\ UNCHANGED <<explicitEnums, blocks, exportedEnums, mdEnums, epc, passes>>
    /\ UNCHANGED <<builderVars, registryVars, parserVars, lspVars>>

PopulateEnumsExport ==
    /\ epc = "loop"
    /\ blk < Len(blocks)
    /\ LET e == blocks[blk + 1] IN
         /\ e # NoEnum
         /\ ~AlreadyExported(e.qn)
         /\ IsUsed(e.qn)
         /\ exportedEnums' = exportedEnums \cup {e.qn}
         /\ mdEnums' = addEnumToMeta(e)
         /\ usedNamedTypes' = UsedAfter(e)
    /\ blk' = blk + 1
    /\ UNCHANGED <<explicitEnums, blocks, epc, passes>>
    /\ UNCHANGED <<app, decls, mdDecls, errs, aborted, bstack, calls, rets, lastCall>>
    /\ UNCHANGED <<registryVars, parserVars, lspVars>>

PopulateEnumsReturn ==
    /\ epc = "loop"
    /\ blk = Len(blocks)
    /\ epc' = "done"
    /\ UNCHANGED <<explicitEnums, blocks, exportedEnums, mdEnums, blk, passes>>
    /\ UNCHANGED <<builderVars, registryVars, parserVars, lspVars>>

\* the enums of the explicit-export pass, in b.md.Enums before populateEnums
RECURSIVE ExplicitDecls(_)
ExplicitDecls(S) ==
    IF S = {} THEN <<>>
    ELSE LET qn == CHOOSE x \in S : TRUE IN
         <<EnumDecl(Enum(qn, qn, <<ConstantInt, ConstantInt>>))>> \o ExplicitDecls(S \ {qn})

\* the builder after the exported surface has been converted
InitEnums ==
    /\ RegistryIdle
    /\ ParserIdle
    /\ LspIdle
    /\ app = [n \in TypeDeclNodes |-> PlainBody(<<>>)]
    /\ decls = [k \in {} |-> 0]
    /\ mdDecls = <<>>
    /\ errs = 0
    /\ aborted = FALSE
    /\ bstack = <<>>
    /\ calls = 0
    /\ rets = [k \in Keys |-> {}]
    /\ lastCall = [op |-> "none", node |-> None, done |-> FALSE, len0 |-> 0]
    /\ explicitEnums \in SUBSET EnumQNames
    /\ usedNamedTypes \in SUBSET Keys
    /\ blocks \in {b \in SeqsUpTo(BlockResults, MaxBlocks) :
                     \A i \in 1..Len(b) :
                        b[i] # NoEnum => b[i].under \in UnderlyingTypes(b[i].qn)}
    /\ exportedEnums = {}
    /\ mdEnums = ExplicitDecls(explicitEnums)
    /\ blk = 0
    /\ epc = "idle"
    /\ passes = 0

NextEnums ==
    \/ CallPopulateEnums
    \/ PopulateEnumsSkip
    \/ PopulateEnumsExport
    \/ PopulateEnumsReturn

SpecEnums == InitEnums /\ [][NextEnums]_vars

\* ------------------------------------------------------------------------
\* Properties of populateEnums
\* ------------------------------------------------------------------------
DeclQName(d) == <<d.PkgName, d.Name>>

\* entries of b.md.Enums with the qualified name qn
EnumCount(qn) == Cardinality({i \in 1..Len(mdEnums) : DeclQName(mdEnums[i]) = qn})

Yielded == {blocks[i].qn : i \in {j \in 1..Len(blocks) : blocks[j] # NoEnum}}

\* C21 (as stated): after populateEnums has run, an enum some const block
\* yields, whose type is used by the exported schemas and which is not
\* explicitly exported, is in b.md.Enums exactly once.
C21_Original ==
    epc = "done" =>
        \A qn \in Yielded :
            (qn \in usedNamedTypes /\ qn \notin explicitEnums) => EnumCount(qn) = 1

\* C22: populateEnums adds an enum only when its qualified name is in
\* b.usedNamedTypes, is not explicitly exported and is not yet in
\* b.exportedEnums; so every enum of b.md.Enums is used or explicitly
\* exported.
C22_UsedOrExplicit ==
    \A i \in 1..Len(mdEnums) :
        DeclQName(mdEnums[i]) \in usedNamedTypes \cup explicitEnums

C22_Guarded ==
    Len(mdEnums') > Len(mdEnums) =>
        LET qn == DeclQName(mdEnums'[Len(mdEnums')]) IN
            /\ Len(mdEnums') = Len(mdEnums) + 1
            /\ qn \in usedNamedTypes
            /\ qn \notin explicitEnums
            /\ qn \notin exportedEnums

C23_Original == [][AtItem("Func") => aborted']_vars

\* ------------------------------------------------------------------------
\* Properties of the edge sets
\* ------------------------------------------------------------------------
\* visitDecl of id has been entered and has not returned
InProgress(id) == \E i \in 1..Len(vstack) : vstack[i].decl = id

\* the copy of visitNamed: the current declaration has the target and every
\* edge the target has at that moment
C24_CopyKeeps ==
    (VisitAt({"TransitiveRefs"}) /\ currDecl # NoId /\ vstack' # vstack) =>
        /\ VItem.id \in declRefs'[currDecl]
        /\ declRefs[VItem.id] \subseteq declRefs'[currDecl]

\* the edge set of a declaration whose visit is not running does not change
C24_FixedAfterReturn ==
    \A id \in DeclIds : ~InProgress(id) => declRefs'[id] = declRefs[id]

\* after traversal the edges of a target t missing from a declaration c
\* that names it are those of a t that c leads back to (an ancestor of c)
C24_MissingOnlyInCycle ==
    Traversed =>
        \A c \in seenDecls : \A t \in Refs(c) :
            \/ t \in declRefs[c] /\ declRefs[t] \subseteq declRefs[c]
            \/ t \in declRefs[c] /\ c \in ReachPlus(t)

\* C24: when a Named reference in the current declaration c targets t, then
\* after the copy of visitNamed c's edge set has t and every edge t had at
\* that moment; an edge set does not change once its declaration's visit has
\* returned, so for a t that is not being visited the copy is of t's final
\* set, and only a t that c leads back to can end with edges c has not.
C24_EdgePropagation ==
    []C24_MissingOnlyInCycle /\ [][C24_CopyKeeps /\ C24_FixedAfterReturn]_vars

\* after traversal: one declaration has all the edges of a target outside
\* any cycle, another one lacks an edge of the ancestor it names
C24_Witness ==
    /\ Traversed
    /\ \E c \in seenDecls : \E t \in Refs(c) :
          /\ c \notin ReachPlus(t)
          /\ declRefs[t] # {}
          /\ declRefs[t] \subseteq declRefs[c]
    /\ \E c \in seenDecls : \E t \in Refs(c) :
          ~(declRefs[t] \subseteq declRefs[c])

\* the recorded edges are reference paths, and the pairs IsRecursiveRef
\* reports are on a cycle
EdgesArePaths ==
    LET paths == TransitiveClosure(RefEdges)
    IN \A a, b \in DeclIds :
          /\ b \in declRefs[a] => <<a, b>> \in paths
          /\ IsRecursiveRef(a, b) => (<<a, b>> \in paths /\ <<b, a>> \in paths)

\* C28: every recorded edge from -> to is a reference path of length at least
\* 1 from 'from' to 'to' in the Named-reference graph, at every moment of the
\* traversal; so when IsRecursiveRef(a, b) is true, a and b are mutually
\* reachable.
C28_NeverOverReports == []EdgesArePaths

\* after traversal: a recursive pair of two declarations, a copied edge, and
\* a declaration that is on no cycle
C28_Witness ==
    /\ Traversed
    /\ \E a, b \in DeclIds : a # b /\ IsRecursiveRef(a, b)
    /\ \E a \in DeclIds : declRefs[a] \ Refs(a) # {}
    /\ \E a \in seenDecls : a \notin ReachPlus(a) /\ declRefs[a] # {}

\* ------------------------------------------------------------------------
\* Properties of the evaluator's values
\* ------------------------------------------------------------------------
\* an expression of a node type evaluateExprWithSpecIndex has no case for
Unrecognized(e) ==
    e.node \notin {"BasicLit", "Ident", "UnaryExpr", "BinaryExpr", "CallExpr"}

\* C25 (as stated): what the evaluator returns for an unrecognized expression
\* differs from the value of a constant that is the empty string.
C25_Original ==
    (evalDone /\ Unrecognized(evalExpr)) =>
        evalValue # evaluateExprWithSpecIndex(BasicLit("STRING", <<Quote, Quote>>), evalIndex)

\* ------------------------------------------------------------------------
\* Properties of the enum's name
\* ------------------------------------------------------------------------
\* an identifier without its trailing digits
RECURSIVE StripNumericSuffix(_)
StripNumericSuffix(name) ==
    IF Len(name) > 1 /\ name[Len(name)] \in Digits
    THEN StripNumericSuffix(SubSeq(name, 1, Len(name) - 1))
    ELSE name

HasPrefix(name, prefix) ==
    Len(name) >= Len(prefix) /\ SubSeq(name, 1, Len(prefix)) = prefix

\* C26 (as stated): an Enum of a named type has the type's name, and the
\* type's doc comment when it has one, else the block's doc; an Enum of a
\* builtin type has the first member's identifier without its trailing
\* numeric suffix when every member's identifier begins with that prefix,
\* and the first member's full identifier otherwise.
C26_Original ==
    (Parsed /\ HasEnum) =>
        LET e == results[1].item
            type == e.UnderlyingType
            first == e.Members[1].Name
            prefix == StripNumericSuffix(first)
        IN IF type.variant = "Named"
           THEN /\ e.Name = <<type.name>>
                /\ e.Doc = IF DeclInfoDoc(type.name) # "" THEN DeclInfoDoc(type.name)
                           ELSE BlockDoc
           ELSE /\ e.Doc = BlockDoc
                /\ e.Name = IF prefix # first
                               /\ \A k \in 1..Len(e.Members) : HasPrefix(e.Members[k].Name, prefix)
                            THEN prefix ELSE first

\* ------------------------------------------------------------------------
\* Properties of the integer arithmetic
\* ------------------------------------------------------------------------
\* two's complement at the width of the model: the integer of the width
\* that differs from n by a multiple of 2^width
TwosComplement(n) == CHOOSE v \in MinInt..MaxInt : (v - n) % Pow2(IntBits) = 0

\* the bits of x, as the set of their positions
BitSet(x) ==
    LET u == IF x < 0 THEN x + Pow2(IntBits) ELSE x
    IN {i \in 0..(IntBits - 1) : (u \div Pow2(i)) % 2 = 1}

RECURSIVE FromBitSet(_)
FromBitSet(S) ==
    IF S = {} THEN 0
    ELSE LET i == CHOOSE j \in S : TRUE IN Pow2(i) + FromBitSet(S \ {i})

\* the quotient truncated towards zero and its remainder
Quotient(x, y) ==
    CHOOSE q \in (MinInt - 1)..(MaxInt + 1) :
        LET r == x - q * y
        IN /\ (IF r < 0 THEN 0 - r ELSE r) < (IF y < 0 THEN 0 - y ELSE y)
           /\ r = 0 \/ (r < 0) = (x < 0)

\* the shift count uint(y)
ShiftCount(y) == IF y < 0 THEN y + Pow2(IntBits) ELSE y

\* the operators on integers of the width, by their definition
IntOps == {"+", "-", "*", "/", "%", "&", "|", "^", "<<", ">>"}

IntResult(op, x, y) ==
    CASE op = "+" -> TwosComplement(x + y)
      [] op = "-" -> TwosComplement(x - y)
      [] op = "*" -> TwosComplement(x * y)
      [] op = "/" -> TwosComplement(Quotient(x, y))
      [] op = "%" -> x - Quotient(x, y) * y
      [] op = "&" -> TwosComplement(FromBitSet(BitSet(x) \cap BitSet(y)))
      [] op = "|" -> TwosComplement(FromBitSet(BitSet(x) \cup BitSet(y)))
      [] op = "^" -> TwosComplement(FromBitSet((BitSet(x) \cup BitSet(y)) \ (BitSet(x) \cap BitSet(y))))
      [] op = "<<" -> IF ShiftCount(y) >= IntBits THEN 0
                      ELSE TwosComplement(x * Pow2(ShiftCount(y)))
      [] OTHER -> IF ShiftCount(y) >= IntBits THEN (IF x < 0 THEN 0 - 1 ELSE 0)
                  ELSE CHOOSE q \in MinInt..MaxInt :
                          /\ q * Pow2(ShiftCount(y)) <= x
                          /\ x < (q + 1) * Pow2(ShiftCount(y))

\* the value of an expression made of integer literals, iota, unary minus
\* and the operators above
RECURSIVE IntExprValue(_)
IntExprValue(e) ==
    CASE e.node = "BasicLit" -> ParseInt(e.text)
      [] e.node = "Ident" -> evalIndex
      [] e.node = "UnaryExpr" -> TwosComplement(0 - IntExprValue(e.kids[1]))
      [] OTHER -> IntResult(e.op, IntExprValue(e.kids[1]), IntExprValue(e.kids[2]))

RECURSIVE IsIntExpr(_)
IsIntExpr(e) ==
    \/ e \in IntOperands
    \/ e.node = "UnaryExpr" /\ e.op = "-" /\ IsIntExpr(e.kids[1])
    \/ /\ e.node = "BinaryExpr" /\ e.op \in IntOps
       /\ IsIntExpr(e.kids[1]) /\ IsIntExpr(e.kids[2])
       /\ e.op \in {"/", "%"} => IntExprValue(e.kids[2]) # 0

\* C27: a binary expression of two Int operands with +, -, *, &, |, ^, << or
\* >> evaluates to the Int the operator gives in two's-complement arithmetic
\* of the width, / and % do when the right operand is not zero, unary minus
\* of an Int is its negation, and iota in such an expression is the spec's
\* index.
C27_IntArithmetic ==
    (evalDone /\ IsIntExpr(evalExpr)) => evalValue = IntValue(IntExprValue(evalExpr))

\* the sum of the largest integer and iota has been evaluated in spec 1: it
\* has wrapped to the smallest integer
C27_Witness ==
    /\ evalDone
    /\ evalExpr = BinaryExpr(IntLit(MaxInt), "+", Ident("iota"))
    /\ evalIndex = 1
    /\ evalValue = IntValue(MinInt)

\* ------------------------------------------------------------------------
\* Properties of the two modes
\* ------------------------------------------------------------------------
\* the constant of the exported name at place pl of the block, from the
\* specs alone
ConstantOfPlace(pl) ==
    LET s == pl[1]
        i == pl[2]
        values == specs[s + 1].Values
    IN [ Name |-> NameAt(pl),
         Type |-> IF ExplicitUpTo(s) = {} THEN SchemaNil
                  ELSE schemaType(specs[LatestExplicit(s)].Type),
         Value |-> IF i < Len(values) THEN evaluateExprWithSpecIndex(values[i + 1], s)
                   ELSE IntValue(s),
         Doc |-> BlockDoc,
         Loc |-> NameLoc(s, i, NameAt(pl)) ]

\* the result list of the declaration: a function of the declaration and of
\* the schema parser, not of the mode
ResultsOfDecl ==
    LET places == ExportedPlaces(specs)
        cs == [k \in 1..Len(places) |-> ConstantOfPlace(places[k])]
        enum == tryGroupAsEnum(cs)
    IN IF tok # "CONST" \/ cs = <<>> THEN <<>>
       ELSE IF enum # <<>>
       THEN <<[kind |-> "Enum", item |-> enum[1]]>>
       ELSE [k \in 1..Len(cs) |-> [kind |-> "Constant", item |-> cs[k]]]

MaxChecks == 2

Runs == 1..MaxChecks
URIs == {"u1", "u2"}

\* the positions of a run that has returned
Returned_Run == {"nochecker", "failed", "done"}

\* "cancel()" of run p: its checkCtx is cancelled
Cancel(set, p) == IF p = 0 THEN set ELSE set \cup {p}

\* handleInitialize: the app root was found and the checker is created
Initialize ==
    /\ ~checker
    /\ checker' = TRUE
    /\ UNCHANGED <<cancelCheck, lastDiagURIs, cancelled, started, rpc, rchecker,
                   currentURIs, previousURIs, published>>
    /\ UNCHANGED <<builderVars, registryVars, parserVars, metaVars>>

\* runCheck, first section: the checker is read, the check in progress is
\* cancelled and this run's cancel function takes its place
RunCheckStart(p) ==
    /\ rpc[p] = "idle"
    /\ p = Len(started) + 1
    /\ rchecker' = [rchecker EXCEPT ![p] = checker]
    /\ cancelled' = Cancel(cancelled, cancelCheck)
    /\ cancelCheck' = p
    /\ started' = Append(started, p)
    /\ rpc' = [rpc EXCEPT ![p] = "run"]
    /\ UNCHANGED <<checker, lastDiagURIs, currentURIs, previousURIs, published>>
    /\ UNCHANGED <<builderVars, registryVars, parserVars, metaVars>>

\* "if checker == nil { return }", with the deferred cancel
RunCheckNoChecker(p) ==
    /\ rpc[p] = "run"
    /\ ~rchecker[p]
    /\ cancelled' = Cancel(cancelled, p)
    /\ rpc' = [rpc EXCEPT ![p] = "nochecker"]
    /\ UNCHANGED <<checker, cancelCheck, lastDiagURIs, started, rchecker,
                   currentURIs, previousURIs, published>>
    /\ UNCHANGED <<builderVars, registryVars, parserVars, metaVars>>

\* Checker.Run returns an error (c.daemon.Check failed): runCheck returns
CheckerRunFails(p) ==
    /\ rpc[p] = "run"
    /\ rchecker[p]
    /\ cancelled' = Cancel(cancelled, p)
    /\ rpc' = [rpc EXCEPT ![p] = "failed"]
    /\ UNCHANGED <<checker, cancelCheck, lastDiagURIs, started, rchecker,
                   currentURIs, previousURIs, published>>
    /\ UNCHANGED <<builderVars, registryVars, parserVars, metaVars>>

\* Checker.Run returns a result: the diagnostics received until stream.Recv
\* returned an error, be it the end of the stream or a cancelled context
CheckerRunReturns(p) ==
    /\ rpc[p] = "run"
    /\ rchecker[p]
    /\ \E uris \in SUBSET URIs : currentURIs' = [currentURIs EXCEPT ![p] = uris]
    /\ rpc' = [rpc EXCEPT ![p] = "publish"]
    /\ UNCHANGED <<checker, cancelCheck, lastDiagURIs, cancelled, started, rchecker,
                   previousURIs, published>>
    /\ UNCHANGED <<builderVars, registryVars, parserVars, metaVars>>

\* the notifications of a loop that reach the editor: all of them, or any
\* of them when the context is cancelled
Delivered(p, uris) == IF p \in cancelled THEN SUBSET uris ELSE {uris}

\* "Publish diagnostics for files with errors."
PublishCurrent(p) ==
    /\ rpc[p] = "publish"
    /\ \E sent \in Delivered(p, currentURIs[p]) : published' = published \cup sent
    /\ rpc' = [rpc EXCEPT ![p] = "swap"]
    /\ UNCHANGED <<checker, cancelCheck, lastDiagURIs, cancelled, started, rchecker,
                   currentURIs, previousURIs>>
    /\ UNCHANGED <<builderVars, registryVars, parserVars, metaVars>>

\* runCheck, second section: previousURIs and h.lastDiagURIs
SwapLast(p) ==
    /\ rpc[p] = "swap"
    /\ previousURIs' = [previousURIs EXCEPT ![p] = lastDiagURIs]
    /\ lastDiagURIs' = currentURIs[p]
    /\ rpc' = [rpc EXCEPT ![p] = "clear"]
    /\ UNCHANGED <<checker, cancelCheck, cancelled, started, rchecker, currentURIs, published>>
    /\ UNCHANGED <<builderVars, registryVars, parserVars, metaVars>>

\* "Clear diagnostics for URIs that had errors before but don't anymore.",
\* then the deferred cancel
ClearPrevious(p) ==
    /\ rpc[p] = "clear"
    /\ \E sent \in Delivered(p, previousURIs[p] \ currentURIs[p]) :
          published' = published \ sent
    /\ cancelled' = Cancel(cancelled, p)
    /\ rpc' = [rpc EXCEPT ![p] = "done"]
    /\ UNCHANGED <<checker, cancelCheck, lastDiagURIs, started, rchecker,
                   currentURIs, previousURIs>>
    /\ UNCHANGED <<builderVars, registryVars, parserVars, metaVars>>

\* newHandler
InitHandler ==
    /\ BuilderIdle
    /\ RegistryIdle
    /\ ParserIdle
    /\ MetaIdle
    /\ checker = FALSE
    /\ cancelCheck = 0
    /\ lastDiagURIs = {}
    /\ cancelled = {}
    /\ started = <<>>
    /\ rpc = [p \in Runs |-> "idle"]
    /\ rchecker = [p \in Runs |-> FALSE]
    /\ currentURIs = [p \in Runs |-> {}]
    /\ previousURIs = [p \in Runs |-> {}]
    /\ published = {}

NextHandler ==
    \/ Initialize
    \/ \E p \in Runs :
          \/ RunCheckStart(p)
          \/ RunCheckNoChecker(p)
          \/ CheckerRunFails(p)
          \/ CheckerRunReturns(p)
          \/ PublishCurrent(p)
          \/ SwapLast(p)
          \/ ClearPrevious(p)

SpecHandler == InitHandler /\ [][NextHandler]_vars

\* ------------------------------------------------------------------------
\* Properties of the LSP handler
\* ------------------------------------------------------------------------
\* every run has been started and has returned
AllReturned == \A p \in Runs : rpc[p] \in Returned_Run

\* the run started last
LastStarted == started[Len(started)]

\* C30 (as stated): once all the runs have returned, and the run started last
\* has had a result, h.lastDiagURIs is the set of URIs with diagnostics of
\* that run.
C30_Original ==
    (AllReturned /\ rpc[LastStarted] = "done") =>
        lastDiagURIs = currentURIs[LastStarted]

====
